---- MODULE Spec2Model ----
(***************************************************************************)
(* A model of the expression / join / operator core of BigQuery            *)
(* DataFrames: the row-identity join (bigframes/core/joins/row_identity.py),*)
(* order-id composition and Index.join (bigframes/core/indexes/index.py),   *)
(* the dtype mapping and cast_ibis_value (bigframes/dtypes.py), the         *)
(* floordiv / mod operators (bigframes/operations/__init__.py), the window  *)
(* and aggregate operators (bigframes/aggregations.py),                     *)
(* Session._create_sequential_ordering and Session.read_gbq_table           *)
(* (bigframes/session.py) and _parse_flags                                  *)
(* (bigframes/operations/strings.py).                                       *)
(***************************************************************************)
EXTENDS Integers, Sequences, FiniteSets, TLC

VARIABLES
    pc,             \* which call is running and how far it has got
    \* join_by_row_identity
    left, right,    \* the two BigFramesExpr handed to join_by_row_identity
    how,            \* the join mode handed to it
    joined,         \* what the call produced: an expression or a raised error
    sql_compiled,   \* number of Table.compile() calls (SQL text generated)
    sql_executed,   \* TRUE once a query has been started on the backend
    \* _merge_order_ids
    order_rows,     \* the order ids of two left rows and one right row, the
                    \* encoding sizes of the two sides and the join mode
    new_order_ids,  \* the merged order id of each left row with the right row
    \* dtype conversion
    ibis_dtype,         \* the backend type converted
    bigframes_dtype,    \* the user dtype (or dtype string) converted
    dtype_result,       \* what the conversion returned or raised
    \* floordiv_op / mod_op
    binop,          \* the operator applied and its two operands
    binop_result,   \* the value of the compiled expression on those operands
    \* aggregations: WindowOp._as_ibis
    agg,            \* the operator, the column it is applied to and the window
    agg_result,     \* the expression built (evaluated on the rows) or the error
    \* cast_ibis_value
    cast,           \* the value cast and the type it is cast to
    cast_result,    \* the value returned or the error raised
    \* Session._create_sequential_ordering
    session,        \* the table handed in and the session's temporary tables
    seq_result,     \* the (table, ordering) pair returned
    \* Index.join
    index_call,     \* self, other, how and sort of the call
    index_joined,   \* what the call produced: an index or a raised error
    \* the equality join of Index.join on the rows of the two tables
    eq_join,        \* the rows of the two sides, their index columns and how
    eq_joined,      \* the joined table and the columns Index.join builds on it
    \* Session.read_gbq_table
    gbq_call,       \* the arguments of the call
    gbq_result,     \* what was looked up, queried and returned or raised
    \* StringMethods._parse_flags
    flags,          \* the re flags handed in
    flags_result    \* the re2 flag string returned or the error raised

joinVars == <<left, right, how, joined, sql_compiled, sql_executed>>

orderVars == <<order_rows, new_order_ids>>

dtypeVars == <<ibis_dtype, bigframes_dtype, dtype_result>>

binopVars == <<binop, binop_result>>

aggVars == <<agg, agg_result>>

castVars == <<cast, cast_result>>

seqVars == <<session, seq_result>>

indexVars == <<index_call, index_joined>>

eqVars == <<eq_join, eq_joined>>

gbqVars == <<gbq_call, gbq_result>>

flagVars == <<flags, flags_result>>

vars == <<pc, joinVars, orderVars, dtypeVars, binopVars, aggVars, castVars, seqVars,
          indexVars, eqVars, gbqVars, flagVars>>

(***************************************************************************)
(* Bounds.                                                                 *)
(***************************************************************************)
MaxPreds == 2       \* longest predicate list carried by one side

(***************************************************************************)
(* SQL three-valued logic: a boolean backend value is TRUE, FALSE or NULL. *)
(***************************************************************************)
TV == {"T", "F", "N"}

And3(x, y) ==
    IF x = "F" \/ y = "F" THEN "F"
    ELSE IF x = "T" /\ y = "T" THEN "T"
    ELSE "N"

Or3(x, y) ==
    IF x = "T" \/ y = "T" THEN "T"
    ELSE IF x = "F" /\ y = "F" THEN "F"
    ELSE "N"

(***************************************************************************)
(* Boolean expressions over the shared table.  The predicates a side       *)
(* carries are opaque boolean columns (Atom); the join builds AND and OR   *)
(* nodes over them.                                                        *)
(***************************************************************************)
Preds == {"p1", "p2", "p3"}

Atom(p)     == [op |-> "pred", id |-> p,  args |-> <<>>]
AndOf(x, y) == [op |-> "and",  id |-> "", args |-> <<x, y>>]
OrOf(x, y)  == [op |-> "or",   id |-> "", args |-> <<x, y>>]
RaisedValueError == [op |-> "raise", id |-> "ValueError", args |-> <<>>]

Atoms == {Atom(p) : p \in Preds}

\* A valuation gives every opaque predicate its value on one row.
Valuations == [Preds -> TV]

RECURSIVE Eval(_, _)
Eval(e, pv) ==
    IF e.op = "pred" THEN pv[e.id]
    ELSE IF e.op = "and" THEN And3(Eval(e.args[1], pv), Eval(e.args[2], pv))
    ELSE IF e.op = "or" THEN Or3(Eval(e.args[1], pv), Eval(e.args[2], pv))
    ELSE "N"

\* A pending filter keeps the rows on which every predicate is TRUE.
Kept(predicates, pv) ==
    \A i \in DOMAIN predicates : Eval(predicates[i], pv) = "T"

Range(s) == {s[i] : i \in DOMAIN s}

\* tuple(set(...)): the elements once each, in an order Python does not fix.
TuplesOfSet(S) ==
    {s \in [1..Cardinality(S) -> S] : \A i, j \in 1..Cardinality(S) : i # j => s[i] # s[j]}

(***************************************************************************)
(* row_identity.py                                                         *)
(***************************************************************************)
SUPPORTED_ROW_IDENTITY_HOW == {"outer", "left", "inner"}

map_left_id(left_side_id) == left_side_id \o "_x"

\* Mutant: the right side's ids renamed with the left side's suffix.
map_right_id_suffix_x(right_side_id) == right_side_id \o "_x"

map_right_id(right_side_id) == right_side_id \o "_y"

RECURSIVE _reduce_predicate_list(_)
_reduce_predicate_list(predicate_list) ==
    IF Len(predicate_list) = 0 THEN RaisedValueError
    ELSE IF Len(predicate_list) = 1 THEN predicate_list[1]
    ELSE AndOf(_reduce_predicate_list(SubSeq(predicate_list, 1, Len(predicate_list) - 1)),
               predicate_list[Len(predicate_list)])

\* Mutant: the right-relative predicates computed with the operands of the
\* set difference swapped.
_get_relative_predicates_swapped(left_predicates, right_predicates) ==
    IF left_predicates # <<>> /\ right_predicates # <<>>
    THEN {<<l, r>> : l \in TuplesOfSet(Range(left_predicates) \ Range(right_predicates)),
                     r \in TuplesOfSet(Range(left_predicates) \ Range(right_predicates))}
    ELSE {<<left_predicates, right_predicates>>}

\* The possible return values: a pair <<left_relative, right_relative>>.
_get_relative_predicates(left_predicates, right_predicates) ==
    IF left_predicates # <<>> /\ right_predicates # <<>>
    THEN {<<l, r>> : l \in TuplesOfSet(Range(left_predicates) \ Range(right_predicates)),
                     r \in TuplesOfSet(Range(right_predicates) \ Range(left_predicates))}
    ELSE {<<left_predicates, right_predicates>>}

\* Mutant: the outer join combines the two sides with AND.
_join_predicates_outer_and(left_predicates, right_predicates, join_type) ==
    IF join_type = "outer" THEN
        IF left_predicates = <<>> THEN {<<>>}
        ELSE IF right_predicates = <<>> THEN {<<>>}
        ELSE {<<AndOf(_reduce_predicate_list(left_predicates),
                      _reduce_predicate_list(right_predicates))>>}
    ELSE IF join_type = "left" THEN {left_predicates}
    ELSE IF join_type = "inner" THEN
        {left_predicates \o rel[2] :
            rel \in _get_relative_predicates(left_predicates, right_predicates)}
    ELSE {}

\* The possible return values; the empty set when the call raises.
_join_predicates(left_predicates, right_predicates, join_type) ==
    IF join_type = "outer" THEN
        IF left_predicates = <<>> THEN {<<>>}
        ELSE IF right_predicates = <<>> THEN {<<>>}
        ELSE {<<OrOf(_reduce_predicate_list(left_predicates),
                     _reduce_predicate_list(right_predicates))>>}
    ELSE IF join_type = "left" THEN {left_predicates}
    ELSE IF join_type = "inner" THEN
        {left_predicates \o rel[2] :
            rel \in _get_relative_predicates(left_predicates, right_predicates)}
    ELSE {}

\* A column of an expression: the value of column `key` of `side`, NULL on
\* every row where some condition of `masks` is not TRUE (one CASE WHEN
\* cond THEN value ELSE NULL END per condition).
Column(side, key) == [side |-> side, key |-> key, name |-> key, masks |-> <<>>]

_mask_value(value, predicates) ==
    IF predicates # <<>>
    THEN [value EXCEPT !.masks = Append(@, _reduce_predicate_list(predicates))]
    ELSE value

Named(value, name) == [value EXCEPT !.name = name]

\* Mutant: left's columns masked in the modes meant for right's.
left_mask_as_right(how_, left_relative_predicates) ==
    IF how_ \in {"left", "outer"} THEN left_relative_predicates ELSE <<>>

left_mask(how_, left_relative_predicates) ==
    IF how_ \in {"right", "outer"} THEN left_relative_predicates ELSE <<>>

\* Mutant: right's columns masked in an outer join only.
right_mask_outer_only(how_, right_relative_predicates) ==
    IF how_ = "outer" THEN right_relative_predicates ELSE <<>>

right_mask(how_, right_relative_predicates) ==
    IF how_ \in {"left", "outer"} THEN right_relative_predicates ELSE <<>>

joined_columns(l, r, how_, rel) ==
    [i \in 1..Len(l.columns) |->
        Named(_mask_value(l.columns[i], left_mask(how_, rel[1])),
              map_left_id(l.columns[i].name))]
    \o
    [i \in 1..Len(r.columns) |->
        Named(_mask_value(r.columns[i], right_mask(how_, rel[2])),
              map_right_id(r.columns[i].name))]

meta_columns(l, r) ==
    [i \in 1..Len(l.meta_columns) |->
        Named(l.meta_columns[i], map_left_id(l.meta_columns[i].name))]
    \o
    [i \in 1..Len(r.meta_columns) |->
        Named(r.meta_columns[i], map_right_id(r.meta_columns[i].name))]

(***************************************************************************)
(* Orderings (bigframes.core.ordering).  ordering_id "" stands for None,   *)
(* and NoOrdering for an expression whose _ordering is falsy.              *)
(***************************************************************************)
OrderingColumnReference(column_id, ascending) ==
    [column_id |-> column_id, ascending |-> ascending]

with_name(col_ref, name) == [col_ref EXCEPT !.column_id = name]

ExpressionOrdering(ordering_value_columns, ordering_id) ==
    [present |-> TRUE,
     ordering_value_columns |-> ordering_value_columns,
     ordering_id |-> ordering_id]

NoOrdering == [present |-> FALSE, ordering_value_columns |-> <<>>, ordering_id |-> ""]

with_ordering_columns(ordering, ordering_value_columns) ==
    [ordering EXCEPT !.ordering_value_columns = ordering_value_columns]

with_ordering_id(ordering, ordering_id) ==
    [ordering EXCEPT !.ordering_id = ordering_id]

\* Mutant: the order id renamed with the right side's suffix.
new_ordering_id_right_suffix(l) ==
    IF l.ordering.ordering_id # "" THEN map_right_id(l.ordering.ordering_id) ELSE ""

new_ordering_id(l) ==
    IF l.ordering.ordering_id # "" THEN map_left_id(l.ordering.ordering_id) ELSE ""

new_ordering(l, r) ==
    LET merged ==
            with_ordering_columns(
                l.ordering,
                [i \in 1..Len(l.ordering.ordering_value_columns) |->
                    with_name(l.ordering.ordering_value_columns[i],
                              map_left_id(l.ordering.ordering_value_columns[i].column_id))]
                \o
                [i \in 1..Len(r.ordering.ordering_value_columns) |->
                    with_name(r.ordering.ordering_value_columns[i],
                              map_right_id(r.ordering.ordering_value_columns[i].column_id))])
    IN  IF new_ordering_id(l) # ""
        THEN with_ordering_id(merged, new_ordering_id(l))
        ELSE merged

\* Mutant: how is not passed on, so join_type takes its default "outer".
combined_predicates_default_join_type(l, r, how_) ==
    IF l.predicates # <<>> \/ r.predicates # <<>>
    THEN _join_predicates(l.predicates, r.predicates, "outer")
    ELSE {<<>>}

\* combined_predicates: the possible lists handed to the joined expression.
combined_predicates(l, r, how_) ==
    IF l.predicates # <<>> \/ r.predicates # <<>>
    THEN _join_predicates(l.predicates, r.predicates, how_)
    ELSE {<<>>}

\* Mutant: the tables of the two sides are not compared.
join_raises_tables_unchecked(l, r, how_) ==
    IF how_ \notin SUPPORTED_ROW_IDENTITY_HOW THEN "NotImplementedError"
    ELSE IF ~(l.ordering.present /\ r.ordering.present) THEN "UnboundLocalError"
    ELSE ""

\* Which exception join_by_row_identity raises on these arguments; "" when
\* it returns.  meta_columns is bound only inside `if left._ordering and
\* right._ordering`, and is read unconditionally when the result is built.
join_raises(l, r, how_) ==
    IF how_ \notin SUPPORTED_ROW_IDENTITY_HOW THEN "NotImplementedError"
    ELSE IF l.table # r.table THEN "ValueError"
    ELSE IF ~(l.ordering.present /\ r.ordering.present) THEN "UnboundLocalError"
    ELSE ""

ErrorMessage(exception) ==
    IF exception = "NotImplementedError"
        THEN "Only how='outer','left','inner' currently supported"
    ELSE IF exception = "ValueError"
        THEN "Cannot combine objects without an explicit join/merge key."
    ELSE IF exception = "UnboundLocalError"
        THEN "local variable 'meta_columns' referenced before assignment"
    ELSE ""

BigFramesExpr(table, columns, meta_cols, ordering, predicates) ==
    [table |-> table, columns |-> columns, meta_columns |-> meta_cols,
     ordering |-> ordering, predicates |-> predicates]

NoExpr == BigFramesExpr("", <<>>, <<>>, NoOrdering, <<>>)

Outcome(status, exception, expr) ==
    [status |-> status, exception |-> exception,
     message |-> ErrorMessage(exception), expr |-> expr]

NotCalled == Outcome("none", "", NoExpr)

(***************************************************************************)
(* The inputs of a row-identity join.                                      *)
(***************************************************************************)
Tables == {"scalars", "scalars_too"}

Hows == {"outer", "left", "inner", "right"}

ORDER_ID_COLUMN == "bigframes_ordering_id"

PredLists == UNION {[1..n -> Atoms] : n \in 0..MaxPreds}

ColumnKeys(side) == IF side = "L" THEN <<"a", "b">> ELSE <<"b", "c">>

Columns(side) == [i \in 1..Len(ColumnKeys(side)) |-> Column(side, ColumnKeys(side)[i])]

\* No ordering; ordered by a value column only; totally ordered by a hidden
\* order id (after a descending sort on a value column).
OrderingChoices(side) ==
    { [ordering |-> NoOrdering, meta_columns |-> <<>>],
      [ordering |-> ExpressionOrdering(
                        <<OrderingColumnReference(ColumnKeys(side)[1], TRUE)>>, ""),
       meta_columns |-> <<>>],
      [ordering |-> ExpressionOrdering(
                        <<OrderingColumnReference(ColumnKeys(side)[2], FALSE)>>,
                        ORDER_ID_COLUMN),
       meta_columns |-> <<Column(side, ORDER_ID_COLUMN)>>] }

Exprs(side, tables) ==
    { BigFramesExpr(t, Columns(side), o.meta_columns, o.ordering, ps) :
        t \in tables, o \in OrderingChoices(side), ps \in PredLists }

(***************************************************************************)
(* Each specification below exercises one part of the library; the         *)
(* variables of the other parts stay at these values.                      *)
(***************************************************************************)
NoValue == "unset"

JoinIdle ==
    /\ left = NoExpr /\ right = NoExpr /\ how = NoValue
    /\ joined = NotCalled /\ sql_compiled = 0 /\ sql_executed = FALSE

OrderIdle == order_rows = NoValue /\ new_order_ids = NoValue

DtypeIdle == ibis_dtype = NoValue /\ bigframes_dtype = NoValue /\ dtype_result = NoValue

BinopIdle == binop = NoValue /\ binop_result = NoValue

AggIdle == agg = NoValue /\ agg_result = NoValue

CastIdle == cast = NoValue /\ cast_result = NoValue

SeqIdle == session = NoValue /\ seq_result = NoValue

IndexIdle == index_call = NoValue /\ index_joined = NoValue

EqIdle == eq_join = NoValue /\ eq_joined = NoValue

GbqIdle == gbq_call = NoValue /\ gbq_result = NoValue

FlagIdle == flags = NoValue /\ flags_result = NoValue

(***************************************************************************)
(* Specification of the row-identity join.                                 *)
(***************************************************************************)
Init ==
    /\ pc = "join_start"
    /\ left \in Exprs("L", {"scalars"})
    /\ right \in Exprs("R", Tables)
    /\ how \in Hows
    /\ joined = NotCalled
    /\ sql_compiled = 0
    /\ sql_executed = FALSE
    /\ OrderIdle /\ DtypeIdle /\ BinopIdle
    /\ AggIdle /\ CastIdle /\ SeqIdle /\ IndexIdle /\ EqIdle /\ GbqIdle /\ FlagIdle

\* how is not one of the supported modes (row_identity.py:38-39).
JoinUnsupportedHow ==
    /\ pc = "join_start"
    /\ join_raises(left, right, how) = "NotImplementedError"
    /\ joined' = Outcome("raised", "NotImplementedError", NoExpr)
    /\ pc' = "join_raised"
    /\ UNCHANGED <<left, right, how, sql_compiled, sql_executed, orderVars, dtypeVars,
                   binopVars, aggVars, castVars, seqVars, indexVars,
                   eqVars, gbqVars, flagVars>>

\* The sides are based on different tables (row_identity.py:41-49); the
\* message holds left.table.compile() and right.table.compile().
JoinDifferentTables ==
    /\ pc = "join_start"
    /\ join_raises(left, right, how) = "ValueError"
    /\ joined' = Outcome("raised", "ValueError", NoExpr)
    /\ sql_compiled' = sql_compiled + 2
    /\ pc' = "join_raised"
    /\ UNCHANGED <<left, right, how, sql_executed, orderVars, dtypeVars, binopVars, aggVars,
                   castVars, seqVars, indexVars,
                   eqVars, gbqVars, flagVars>>

\* A side has no ordering: meta_columns is read before it is bound
\* (row_identity.py:77, 111).
JoinUnboundMetaColumns ==
    /\ pc = "join_start"
    /\ join_raises(left, right, how) = "UnboundLocalError"
    /\ joined' = Outcome("raised", "UnboundLocalError", NoExpr)
    /\ pc' = "join_raised"
    /\ UNCHANGED <<left, right, how, sql_compiled, sql_executed, orderVars, dtypeVars,
                   binopVars, aggVars, castVars, seqVars, indexVars,
                   eqVars, gbqVars, flagVars>>

\* The call returns the joined expression (row_identity.py:51-118).
JoinReturns ==
    /\ pc = "join_start"
    /\ join_raises(left, right, how) = ""
    /\ \E rel \in _get_relative_predicates(left.predicates, right.predicates),
          preds \in combined_predicates(left, right, how) :
            joined' = Outcome("ok", "",
                        BigFramesExpr(left.table,
                                      joined_columns(left, right, how, rel),
                                      meta_columns(left, right),
                                      new_ordering(left, right),
                                      preds))
    /\ pc' = "join_returned"
    /\ UNCHANGED <<left, right, how, sql_compiled, sql_executed, orderVars, dtypeVars,
                   binopVars, aggVars, castVars, seqVars, indexVars,
                   eqVars, gbqVars, flagVars>>

\* The caller materializes the joined expression (Index.compute:
\* expr.start_query()): the only place SQL is compiled and run.
StartQuery ==
    /\ pc = "join_returned"
    /\ sql_compiled' = sql_compiled + 1
    /\ sql_executed' = TRUE
    /\ pc' = "join_computed"
    /\ UNCHANGED <<left, right, how, joined, orderVars, dtypeVars, binopVars, aggVars,
                   castVars, seqVars, indexVars,
                   eqVars, gbqVars, flagVars>>

Next ==
    \/ JoinUnsupportedHow
    \/ JoinDifferentTables
    \/ JoinUnboundMetaColumns
    \/ JoinReturns
    \/ StartQuery

Spec == Init /\ [][Next]_vars

(***************************************************************************)
(* Properties of the row-identity join.                                    *)
(***************************************************************************)
Returned == pc \in {"join_returned", "join_computed"}

Called == pc \in {"join_returned", "join_computed", "join_raised"}

\* The values a column can hold on one row.
Val == {"NULL", "v1", "v2"}

\* The value of a column on a row where the opaque predicates are valued by
\* pv and the column it is built from holds val.
ColValue(col, pv, val) == IF Kept(col.masks, pv) THEN val ELSE "NULL"

\* The predicates one side carries and the other does not.
LeftOnly == Range(left.predicates) \ Range(right.predicates)

RightOnly == Range(right.predicates) \ Range(left.predicates)

AllTrue(S, pv) == \A e \in S : Eval(e, pv) = "T"

\* C1: for how='outer' a row is kept by the joined expression if and only
\* if it satisfies every left predicate or every right predicate (a side
\* without predicates accepts every row), and the combined predicate is a
\* single OR node when both sides carry predicates.
C1_OuterKeepsLeftOrRight ==
    (Returned /\ how = "outer") =>
        /\ \A pv \in Valuations :
              Kept(joined.expr.predicates, pv)
                  <=> (Kept(left.predicates, pv) \/ Kept(right.predicates, pv))
        /\ (left.predicates # <<>> /\ right.predicates # <<>>) =>
              /\ Len(joined.expr.predicates) = 1
              /\ joined.expr.predicates[1].op = "or"

C1_Witness ==
    /\ Returned /\ how = "outer"
    /\ left.predicates = <<Atom("p1"), Atom("p3")>>
    /\ right.predicates = <<Atom("p2")>>
    /\ Kept(joined.expr.predicates, [p \in Preds |-> IF p = "p2" THEN "T" ELSE "F"])
    /\ ~Kept(joined.expr.predicates, [p \in Preds |-> IF p = "p1" THEN "T" ELSE "N"])

\* C2: each left output column is NULL on every row where the left-only
\* predicates are not all true and holds left's value otherwise, for how in
\* {outer, right}; each right output column likewise under the right-only
\* predicates for how in {outer, left}; no other column is masked.
C2_MaskedByRelativePredicates ==
    Returned =>
        /\ Len(joined.expr.columns) = Len(left.columns) + Len(right.columns)
        /\ \A i \in 1..Len(left.columns), pv \in Valuations, val \in Val :
              LET out == joined.expr.columns[i] IN
              /\ out.side = left.columns[i].side /\ out.key = left.columns[i].key
              /\ ColValue(out, pv, val) =
                    IF how \in {"outer", "right"} /\ ~AllTrue(LeftOnly, pv)
                    THEN "NULL" ELSE ColValue(left.columns[i], pv, val)
        /\ \A i \in 1..Len(right.columns), pv \in Valuations, val \in Val :
              LET out == joined.expr.columns[Len(left.columns) + i] IN
              /\ out.side = right.columns[i].side /\ out.key = right.columns[i].key
              /\ ColValue(out, pv, val) =
                    IF how \in {"outer", "left"} /\ ~AllTrue(RightOnly, pv)
                    THEN "NULL" ELSE ColValue(right.columns[i], pv, val)
        /\ \A i \in 1..Len(joined.expr.meta_columns) :
              joined.expr.meta_columns[i].masks = <<>>

C2_Witness ==
    /\ Returned /\ how = "outer"
    /\ left.predicates = <<Atom("p1"), Atom("p2")>>
    /\ right.predicates = <<Atom("p2"), Atom("p3")>>
    /\ LET pv == [p \in Preds |-> IF p = "p1" THEN "F" ELSE "T"] IN
        /\ Kept(joined.expr.predicates, pv)
        /\ ColValue(joined.expr.columns[1], pv, "v1") = "NULL"
        /\ ColValue(joined.expr.columns[Len(left.columns) + 1], pv, "v1") = "v1"

\* C3: for how='inner' the combined predicates are the left predicates
\* followed by the right-only predicates, and a row is kept if and only if
\* it satisfies every left predicate and every right predicate.
C3_InnerKeepsLeftAndRight ==
    (Returned /\ how = "inner") =>
        LET combined == joined.expr.predicates
            n == Len(left.predicates) IN
        /\ Len(combined) >= n
        /\ SubSeq(combined, 1, n) = left.predicates
        /\ Range(SubSeq(combined, n + 1, Len(combined))) = RightOnly
        /\ \A pv \in Valuations :
              Kept(combined, pv)
                  <=> (Kept(left.predicates, pv) /\ Kept(right.predicates, pv))

C3_Witness ==
    /\ Returned /\ how = "inner"
    /\ left.predicates = <<Atom("p1"), Atom("p2")>>
    /\ right.predicates = <<Atom("p2"), Atom("p3")>>
    /\ joined.expr.predicates = <<Atom("p1"), Atom("p2"), Atom("p3")>>

\* C4: for how='left' the result's predicates are exactly the left
\* predicates, so the result keeps exactly the rows the left side keeps,
\* whatever predicates the right side carries.
C4_LeftKeepsLeftRows ==
    (Returned /\ how = "left") =>
        /\ joined.expr.predicates = left.predicates
        /\ \A pv \in Valuations :
              Kept(joined.expr.predicates, pv) <=> Kept(left.predicates, pv)

C4_Witness ==
    /\ Returned /\ how = "left"
    /\ left.predicates = <<Atom("p1")>>
    /\ right.predicates = <<Atom("p2"), Atom("p3")>>
    /\ Kept(joined.expr.predicates, [p \in Preds |-> IF p = "p1" THEN "T" ELSE "F"])

\* C5: the result is ordered by the left side's ordering-value columns
\* renamed with _x followed by the right side's renamed with _y; when both
\* sides carry a total order id the result's id is the left side's id
\* renamed with _x, and the hidden column of that name is the left side's
\* order-id column, unmasked.
C5_MergedOrdering ==
    Returned =>
        LET lo == left.ordering.ordering_value_columns
            ro == right.ordering.ordering_value_columns
            jo == joined.expr.ordering IN
        /\ Len(jo.ordering_value_columns) = Len(lo) + Len(ro)
        /\ \A i \in 1..Len(lo) :
              /\ jo.ordering_value_columns[i].column_id = lo[i].column_id \o "_x"
              /\ jo.ordering_value_columns[i].ascending = lo[i].ascending
        /\ \A i \in 1..Len(ro) :
              /\ jo.ordering_value_columns[Len(lo) + i].column_id = ro[i].column_id \o "_y"
              /\ jo.ordering_value_columns[Len(lo) + i].ascending = ro[i].ascending
        /\ (left.ordering.ordering_id # "" /\ right.ordering.ordering_id # "") =>
              /\ jo.ordering_id = left.ordering.ordering_id \o "_x"
              /\ \E i \in 1..Len(joined.expr.meta_columns) :
                    LET m == joined.expr.meta_columns[i] IN
                    /\ m.name = jo.ordering_id
                    /\ m.side = "L" /\ m.key = left.ordering.ordering_id
                    /\ m.masks = <<>>

C5_Witness ==
    /\ Returned /\ how = "outer"
    /\ left.ordering.ordering_id = ORDER_ID_COLUMN
    /\ right.ordering.ordering_id = ORDER_ID_COLUMN
    /\ left.predicates = <<Atom("p1")>> /\ right.predicates = <<Atom("p2")>>
    /\ joined.expr.ordering.ordering_id = "bigframes_ordering_id_x"
    /\ Len(joined.expr.ordering.ordering_value_columns) = 2

\* C6 as stated: whenever the two sides are based on different tables the
\* call raises the 'cannot combine' ValueError, no SQL has been generated or
\* executed, and there is no joined expression.
C6_AsStated ==
    (Called /\ left.table # right.table) =>
        /\ joined.status = "raised"
        /\ joined.exception = "ValueError"
        /\ joined.message = "Cannot combine objects without an explicit join/merge key."
        /\ joined.expr = NoExpr
        /\ sql_compiled = 0
        /\ ~sql_executed

\* C6 amended: when the two sides are based on different tables the call
\* raises at once, returns no joined expression and no query is executed;
\* with a supported how the error is the 'cannot combine' ValueError, whose
\* message holds the compiled SQL of both tables; with an unsupported how
\* the how check comes first and NotImplementedError is raised.
C6_DifferentTablesRaise ==
    (Called /\ left.table # right.table) =>
        /\ pc = "join_raised"
        /\ joined.status = "raised"
        /\ joined.expr = NoExpr
        /\ ~sql_executed
        /\ how \in SUPPORTED_ROW_IDENTITY_HOW =>
              /\ joined.exception = "ValueError"
              /\ joined.message = "Cannot combine objects without an explicit join/merge key."
              /\ sql_compiled = 2
        /\ how \notin SUPPORTED_ROW_IDENTITY_HOW =>
              /\ joined.exception = "NotImplementedError"
              /\ sql_compiled = 0

C6_Witness ==
    /\ pc = "join_raised"
    /\ left.table = "scalars" /\ right.table = "scalars_too"
    /\ how = "outer"
    /\ joined.exception = "ValueError"

\* C20: for how in {left, outer}, on every row the joined expression keeps,
\* the columns of a masked side (right's for left, both sides' for outer)
\* hold that side's own value if the row satisfies every predicate of that
\* side and NULL otherwise: the same as masking with the side's full
\* predicate list instead of its relative predicates.
C20_RelativeMaskingIsFullMasking ==
    (Returned /\ how \in {"left", "outer"}) =>
        \A pv \in Valuations, val \in Val :
            Kept(joined.expr.predicates, pv) =>
                /\ \A i \in 1..Len(right.columns) :
                      LET out == joined.expr.columns[Len(left.columns) + i] IN
                      /\ ColValue(out, pv, val) =
                            IF Kept(right.predicates, pv) THEN val ELSE "NULL"
                      /\ ColValue(out, pv, val) =
                            ColValue(_mask_value(right.columns[i], right.predicates), pv, val)
                /\ how = "outer" =>
                      \A i \in 1..Len(left.columns) :
                          LET out == joined.expr.columns[i] IN
                          /\ ColValue(out, pv, val) =
                                IF Kept(left.predicates, pv) THEN val ELSE "NULL"
                          /\ ColValue(out, pv, val) =
                                ColValue(_mask_value(left.columns[i], left.predicates), pv, val)

C20_Witness ==
    /\ Returned /\ how = "left"
    /\ left.predicates = <<Atom("p1")>>
    /\ right.predicates = <<Atom("p1"), Atom("p2")>>
    /\ joined.expr.columns[Len(left.columns) + 1].masks = <<Atom("p2")>>
    /\ LET pv == [p \in Preds |-> IF p = "p2" THEN "F" ELSE "T"] IN
        /\ Kept(joined.expr.predicates, pv)
        /\ ColValue(joined.expr.columns[Len(left.columns) + 1], pv, "v1") = "NULL"

(***************************************************************************)
(* Order composition in the general join (index.py).  A string is the      *)
(* sequence of its characters; an order id is written in decimal, so a     *)
(* character is a digit 0..9 and strings compare digit by digit.           *)
(***************************************************************************)
MaxEncodingSize == 2    \* largest ordering_encoding_size of a side
MaxOrderId == 11        \* largest order id of a row

DEFAULT_ORDERING_ID_LENGTH == 10

\* CAST(order_id AS STRING) of a non-negative integer.
RECURSIVE CastToString(_)
CastToString(n) == IF n < 10 THEN <<n>> ELSE Append(CastToString(n \div 10), n % 10)

\* LPAD(value, length, "0"): padded on the left, cut to length when longer.
LPad(value, length) ==
    IF Len(value) >= length THEN SubSeq(value, 1, length)
    ELSE [i \in 1..(length - Len(value)) |-> 0] \o value

stringify_order_id(order_id, length) == LPad(CastToString(order_id), length)

\* Lexicographic order on strings.
LexLess(s, t) ==
    \E k \in 1..Len(t) :
        /\ \A i \in 1..(k - 1) : i <= Len(s) /\ s[i] = t[i]
        /\ (k > Len(s) \/ (k <= Len(s) /\ s[k] < t[k]))

\* Mutant: no default for an encoding size that is not set.
ordering_encoding_size_no_default(size) == size

\* ordering_encoding_size or DEFAULT_ORDERING_ID_LENGTH (0 stands for None).
ordering_encoding_size(size) ==
    IF size # 0 THEN size ELSE DEFAULT_ORDERING_ID_LENGTH

\* Mutant: how = "right" composed like every other mode.
_merge_order_ids_right_not_swapped(left_id, left_encoding_size, right_id, right_encoding_size, how_) ==
    stringify_order_id(left_id, left_encoding_size)
        \o stringify_order_id(right_id, right_encoding_size)

\* Mutant: each id is padded to the other side's encoding size.
_merge_order_ids_sizes_swapped(left_id, left_encoding_size, right_id, right_encoding_size, how_) ==
    IF how_ = "right"
    THEN stringify_order_id(right_id, left_encoding_size)
            \o stringify_order_id(left_id, right_encoding_size)
    ELSE stringify_order_id(left_id, right_encoding_size)
            \o stringify_order_id(right_id, left_encoding_size)

RECURSIVE _merge_order_ids(_, _, _, _, _)
_merge_order_ids(left_id, left_encoding_size, right_id, right_encoding_size, how_) ==
    IF how_ = "right"
    THEN _merge_order_ids(right_id, right_encoding_size, left_id, left_encoding_size, "left")
    ELSE stringify_order_id(left_id, left_encoding_size)
            \o stringify_order_id(right_id, right_encoding_size)

IndexJoinHows == {"outer", "left", "right", "inner"}

\* The order ids a side of the given encoding size can hold.
OrderIds(size) ==
    {n \in 0..MaxOrderId : Len(CastToString(n)) <= ordering_encoding_size(size)}

OrderRows ==
    { [left_id_a |-> a, left_id_b |-> b, right_id |-> r,
       left_size |-> ls, right_size |-> rs, how |-> h] :
        ls \in 0..MaxEncodingSize, rs \in 0..MaxEncodingSize, h \in IndexJoinHows,
        a \in 0..MaxOrderId, b \in 0..MaxOrderId, r \in 0..MaxOrderId }

InitOrder ==
    /\ pc = "order_start"
    /\ order_rows \in {o \in OrderRows :
                        /\ o.left_id_a \in OrderIds(o.left_size)
                        /\ o.left_id_b \in OrderIds(o.left_size)
                        /\ o.right_id \in OrderIds(o.right_size)}
    /\ new_order_ids = <<>>
    /\ JoinIdle /\ DtypeIdle /\ BinopIdle
    /\ AggIdle /\ CastIdle /\ SeqIdle /\ IndexIdle /\ EqIdle /\ GbqIdle /\ FlagIdle

\* Index.join composes the order id of each joined row (index.py:152-170).
MergeOrderIds ==
    /\ pc = "order_start"
    /\ new_order_ids' =
          LET ls == ordering_encoding_size(order_rows.left_size)
              rs == ordering_encoding_size(order_rows.right_size) IN
          << _merge_order_ids(order_rows.left_id_a, ls, order_rows.right_id, rs,
                              order_rows.how),
             _merge_order_ids(order_rows.left_id_b, ls, order_rows.right_id, rs,
                              order_rows.how) >>
    /\ pc' = "order_merged"
    /\ UNCHANGED <<order_rows, joinVars, dtypeVars, binopVars, aggVars, castVars, seqVars,
                   indexVars,
                   eqVars, gbqVars, flagVars>>

NextOrder == MergeOrderIds

SpecOrder == InitOrder /\ [][NextOrder]_vars

\* C7: with the ids of both sides encoded at their fixed widths, if left
\* row A precedes left row B then, for the same right row R, the merged id
\* of (A, R) sorts lexicographically before the merged id of (B, R).
C7_MergedOrderMonotonic ==
    (pc = "order_merged" /\ order_rows.left_id_a < order_rows.left_id_b) =>
        LexLess(new_order_ids[1], new_order_ids[2])

C7_Witness ==
    /\ pc = "order_merged"
    /\ order_rows.left_id_a = 9 /\ order_rows.left_id_b = 10
    /\ order_rows.right_id = 11
    /\ order_rows.left_size = 2 /\ order_rows.right_size = 2
    /\ order_rows.how = "left"
    /\ new_order_ids = << <<0, 9, 1, 1>>, <<1, 0, 1, 1>> >>

(***************************************************************************)
(* dtypes.py.  An ibis dtype is its class, its arguments and its nullable  *)
(* flag; a BigQuery DataFrames dtype is named by the Python expression     *)
(* that builds it; a dtype string is what str() / .name gives for it.      *)
(***************************************************************************)
IbisType(kind, args, nullable) == [kind |-> kind, args |-> args, nullable |-> nullable]

Ibis(kind, args) == IbisType(kind, args, TRUE)

copy(dtype, nullable) == [dtype EXCEPT !.nullable = nullable]

BIDIRECTIONAL_MAPPINGS ==
    << <<Ibis("Boolean", ""),      "pd.BooleanDtype()">>,
       <<Ibis("Float64", ""),      "pd.Float64Dtype()">>,
       <<Ibis("Int64", ""),        "pd.Int64Dtype()">>,
       <<Ibis("String", ""),       "pd.StringDtype(storage='pyarrow')">>,
       <<Ibis("Date", ""),         "pd.ArrowDtype(pa.date32())">>,
       <<Ibis("Time", ""),         "pd.ArrowDtype(pa.time64('us'))">>,
       <<Ibis("Timestamp", "timezone=None"), "pd.ArrowDtype(pa.timestamp('us'))">>,
       <<Ibis("Timestamp", "timezone=UTC"),  "pd.ArrowDtype(pa.timestamp('us', tz='UTC'))">> >>

\* A Python dict as the set of its <<key, value>> items.
Keys(dict) == {item[1] : item \in dict}

Get(dict, key) == (CHOOSE item \in dict : item[1] = key)[2]

\* dict.update(other): the items of other replace those with the same key.
Update(dict, other) == {item \in dict : item[1] \notin Keys(other)} \cup other

\* Mutant: every Arrow timestamp dtype mapped to the timezone-less Timestamp.
BIGFRAMES_TO_IBIS_timezone_dropped ==
    { <<m[2], IF m[1].kind = "Timestamp" THEN Ibis("Timestamp", "timezone=None") ELSE m[1]>> :
        m \in Range(BIDIRECTIONAL_MAPPINGS) }

BIGFRAMES_TO_IBIS == { <<m[2], m[1]>> : m \in Range(BIDIRECTIONAL_MAPPINGS) }

IBIS_TO_BIGFRAMES ==
    Update(
        Update({ <<m[1], m[2]>> : m \in Range(BIDIRECTIONAL_MAPPINGS) },
               { <<copy(m[1], FALSE), m[2]>> : m \in Range(BIDIRECTIONAL_MAPPINGS) }),
        { <<Ibis("Binary", ""), "np.dtype('O')">>,
          <<Ibis("JSON", ""), "np.dtype('O')">>,
          <<Ibis("Decimal", "precision=38, scale=9"), "np.dtype('O')">>,
          <<Ibis("Decimal", "precision=76, scale=38"), "np.dtype('O')">>,
          <<Ibis("GeoSpatial", "geotype=geography, srid=4326"), "gpd.array.GeometryDtype()">> })

\* dtype.name of the dtypes BigQuery DataFrames supports.
name(dtype) ==
    IF dtype = "pd.BooleanDtype()" THEN "boolean"
    ELSE IF dtype = "pd.Float64Dtype()" THEN "Float64"
    ELSE IF dtype = "pd.Int64Dtype()" THEN "Int64"
    ELSE IF dtype = "pd.StringDtype(storage='pyarrow')" THEN "string"
    ELSE IF dtype = "pd.ArrowDtype(pa.date32())" THEN "date32[day][pyarrow]"
    ELSE IF dtype = "pd.ArrowDtype(pa.time64('us'))" THEN "time64[us][pyarrow]"
    ELSE IF dtype = "pd.ArrowDtype(pa.timestamp('us'))" THEN "timestamp[us][pyarrow]"
    ELSE IF dtype = "pd.ArrowDtype(pa.timestamp('us', tz='UTC'))"
        THEN "timestamp[us, tz=UTC][pyarrow]"
    ELSE dtype

BIGFRAMES_STRING_TO_BIGFRAMES ==
    Update({ <<name(dtype), dtype>> : dtype \in Keys(BIGFRAMES_TO_IBIS) },
           { <<"string[pyarrow]", "pd.StringDtype(storage='pyarrow')">> })

\* str(bigframes_dtype): the name of a supported dtype, the text of a dtype
\* string, and Python's rendering of anything else.
str(dtype) ==
    IF dtype \in Keys(BIGFRAMES_TO_IBIS) THEN name(dtype)
    ELSE IF dtype = "pd.StringDtype(storage='python')" THEN "string"
    ELSE IF dtype = "np.dtype('O')" THEN "object"
    ELSE IF dtype = "gpd.array.GeometryDtype()" THEN "geometry"
    ELSE IF dtype = "np.float32" THEN "<class 'numpy.float32'>"
    ELSE IF dtype = "np.dtype('datetime64[us]')" THEN "datetime64[us]"
    ELSE IF dtype = "db_dtypes.DateDtype()" THEN "dbdate"
    ELSE dtype

Returned_(value) == [status |-> "returned", value |-> value, exception |-> ""]

Raised_(exception, message) == [status |-> "raised", value |-> message, exception |-> exception]

ibis_dtype_to_bigframes_dtype(dtype) ==
    IF dtype.kind = "Array" \/ dtype.kind = "Struct" THEN Returned_("np.dtype('O')")
    ELSE IF dtype \in Keys(IBIS_TO_BIGFRAMES) THEN Returned_(Get(IBIS_TO_BIGFRAMES, dtype))
    ELSE Raised_("ValueError", "Unexpected Ibis data type")

bigframes_dtype_to_ibis_dtype(dtype) ==
    LET type_string == str(dtype) IN
    IF type_string \in Keys(BIGFRAMES_STRING_TO_BIGFRAMES)
    THEN Returned_(Get(BIGFRAMES_TO_IBIS, Get(BIGFRAMES_STRING_TO_BIGFRAMES, type_string)))
    ELSE Raised_("ValueError", "Unexpected data type")

\* The backend types the mapping is exercised on: every key of
\* IBIS_TO_BIGFRAMES, each with both nullable flags, arrays and structs,
\* and types BigQuery never returns.
IbisDtypes ==
    LET nullable == Keys(IBIS_TO_BIGFRAMES)
                    \cup { Ibis("Array", "Int64"), Ibis("Array", "String"),
                           Ibis("Struct", "a: Int64"), Ibis("Float32", ""),
                           Ibis("Timestamp", "timezone=PST"),
                           Ibis("GeoSpatial", "geotype=geography, srid=None"),
                           Ibis("Interval", "unit=s") }
    IN  nullable \cup {copy(t, FALSE) : t \in nullable}

\* The dtypes and dtype strings handed to bigframes_dtype_to_ibis_dtype.
BigframesDtypes ==
    Keys(BIGFRAMES_TO_IBIS) \cup Keys(BIGFRAMES_STRING_TO_BIGFRAMES)
    \cup { "pd.StringDtype(storage='python')", "np.dtype('O')",
           "gpd.array.GeometryDtype()", "np.float32", "np.dtype('datetime64[us]')",
           "db_dtypes.DateDtype()", "object", "float64" }

NoDtype == IbisType("", "", TRUE)

NoResult == [status |-> "none", value |-> "", exception |-> ""]

InitDtype ==
    /\ pc = "dtype_start"
    /\ \/ ibis_dtype \in IbisDtypes /\ bigframes_dtype = ""
       \/ ibis_dtype = NoDtype /\ bigframes_dtype \in BigframesDtypes
    /\ dtype_result = NoResult
    /\ JoinIdle /\ OrderIdle /\ BinopIdle
    /\ AggIdle /\ CastIdle /\ SeqIdle /\ IndexIdle /\ EqIdle /\ GbqIdle /\ FlagIdle

\* ibis_dtype_to_bigframes_dtype(ibis_dtype) returns a dtype.
IbisToBigframes ==
    /\ pc = "dtype_start" /\ ibis_dtype # NoDtype
    /\ ibis_dtype_to_bigframes_dtype(ibis_dtype).status = "returned"
    /\ bigframes_dtype' = ibis_dtype_to_bigframes_dtype(ibis_dtype).value
    /\ pc' = "dtype_converted"
    /\ UNCHANGED <<ibis_dtype, dtype_result, joinVars, orderVars, binopVars, aggVars,
                   castVars, seqVars, indexVars,
                   eqVars, gbqVars, flagVars>>

\* ibis_dtype_to_bigframes_dtype(ibis_dtype) raises.
IbisToBigframesRaises ==
    /\ pc = "dtype_start" /\ ibis_dtype # NoDtype
    /\ ibis_dtype_to_bigframes_dtype(ibis_dtype).status = "raised"
    /\ dtype_result' = ibis_dtype_to_bigframes_dtype(ibis_dtype)
    /\ pc' = "dtype_raised"
    /\ UNCHANGED <<ibis_dtype, bigframes_dtype, joinVars, orderVars, binopVars, aggVars,
                   castVars, seqVars, indexVars,
                   eqVars, gbqVars, flagVars>>

\* bigframes_dtype_to_ibis_dtype(bigframes_dtype) returns or raises.
BigframesToIbis ==
    /\ \/ pc = "dtype_converted"
       \/ pc = "dtype_start" /\ ibis_dtype = NoDtype
    /\ dtype_result' = bigframes_dtype_to_ibis_dtype(bigframes_dtype)
    /\ pc' = "dtype_done"
    /\ UNCHANGED <<ibis_dtype, bigframes_dtype, joinVars, orderVars, binopVars, aggVars,
                   castVars, seqVars, indexVars,
                   eqVars, gbqVars, flagVars>>

NextDtype ==
    \/ IbisToBigframes
    \/ IbisToBigframesRaises
    \/ BigframesToIbis

SpecDtype == InitDtype /\ [][NextDtype]_vars

\* The round trip of ibis_dtype has completed (or its second half raised).
RoundTripDone == pc = "dtype_done" /\ ibis_dtype # NoDtype

BidirectionalIbis == {m[1] : m \in Range(BIDIRECTIONAL_MAPPINGS)}

\* C8 as stated: every backend type the mapping accepts converts to a user
\* dtype and back to itself.
C8_AsStated ==
    RoundTripDone =>
        dtype_result.status = "returned" /\ dtype_result.value = ibis_dtype

\* C8 amended: the round trip returns t for the eight nullable types of
\* BIDIRECTIONAL_MAPPINGS; a non-nullable (REQUIRED) variant of one of them
\* comes back as the nullable type; for every other accepted type (binary,
\* JSON, decimal, geography, array, struct) the way back raises ValueError.
C8_RoundTrip ==
    RoundTripDone =>
        /\ ibis_dtype \in BidirectionalIbis =>
              dtype_result.status = "returned" /\ dtype_result.value = ibis_dtype
        /\ (ibis_dtype \notin BidirectionalIbis /\ copy(ibis_dtype, TRUE) \in BidirectionalIbis) =>
              /\ dtype_result.status = "returned"
              /\ dtype_result.value = copy(ibis_dtype, TRUE)
              /\ dtype_result.value # ibis_dtype
        /\ copy(ibis_dtype, TRUE) \notin BidirectionalIbis =>
              dtype_result.status = "raised" /\ dtype_result.exception = "ValueError"

C8_Witness ==
    /\ RoundTripDone
    /\ ibis_dtype = Ibis("Timestamp", "timezone=UTC")
    /\ bigframes_dtype = "pd.ArrowDtype(pa.timestamp('us', tz='UTC'))"
    /\ dtype_result = Returned_(Ibis("Timestamp", "timezone=UTC"))

(***************************************************************************)
(* operations/__init__.py: floordiv_op and mod_op.  An operand is the      *)
(* value of a column on one row or a literal: NULL or an integer.  The     *)
(* compiled expression is evaluated as the backend does: a CASE takes the  *)
(* first branch whose condition is TRUE and evaluates nothing else, and an *)
(* integer division or MOD by zero that is evaluated is an error.          *)
(***************************************************************************)
MaxAbsInt == 4      \* operands range over -MaxAbsInt..MaxAbsInt and NULL

NULL == [kind |-> "null", v |-> 0]

IntValue(n) == [kind |-> "int", v |-> n]

DivisionByZero == [kind |-> "error", v |-> 0]

_ZERO == IntValue(0)

Abs(n) == IF n < 0 THEN -n ELSE n

Sign(n) == IF n < 0 THEN -1 ELSE IF n > 0 THEN 1 ELSE 0

\* Comparisons of backend values: NULL when an operand is NULL.
Eq3(a, b) ==
    IF a.kind # "int" \/ b.kind # "int" THEN "N" ELSE IF a.v = b.v THEN "T" ELSE "F"

Lt3(a, b) ==
    IF a.kind # "int" \/ b.kind # "int" THEN "N" ELSE IF a.v < b.v THEN "T" ELSE "F"

Gt3(a, b) == Lt3(b, a)

\* Arithmetic of backend values: an error stays an error, NULL propagates.
Arith(a, b, n) ==
    IF a.kind = "error" \/ b.kind = "error" THEN DivisionByZero
    ELSE IF a.kind = "null" \/ b.kind = "null" THEN NULL
    ELSE IntValue(n)

Mul(a, b) == Arith(a, b, a.v * b.v)

Add(a, b) == Arith(a, b, a.v + b.v)

\* x % y on the backend: MOD(x, y), which keeps the sign of x.
BqMod(a, b) ==
    IF a.kind = "int" /\ b.kind = "int" /\ b.v = 0 THEN DivisionByZero
    ELSE Arith(a, b, Sign(a.v) * (Abs(a.v) % (IF b.v = 0 THEN 1 ELSE Abs(b.v))))

\* x // y on the backend: the floor of the quotient.
BqFloorDiv(a, b) ==
    IF a.kind = "int" /\ b.kind = "int" /\ b.v = 0 THEN DivisionByZero
    ELSE Arith(a, b, IF b.v > 0 THEN a.v \div b.v
                     ELSE IF b.v < 0 THEN (-a.v) \div (-b.v) ELSE 0)

\* Mutant: no CASE branch for a zero divisor.
floordiv_op_unguarded(x, y) == BqFloorDiv(x, y)

floordiv_op(x, y) ==
    LET floordiv_expr == BqFloorDiv(x, y) IN
    IF Eq3(y, _ZERO) = "T" THEN Mul(_ZERO, x)
    ELSE floordiv_expr

\* Mutant: the backend's remainder returned without the sign correction.
mod_op_sign_of_dividend(x, y, y_is_literal) ==
    IF y_is_literal /\ y.kind = "int" /\ y.v = 0 THEN Mul(_ZERO, x)
    ELSE IF Eq3(y, _ZERO) = "T" THEN Mul(_ZERO, x)
    ELSE BqMod(x, y)

mod_op(x, y, y_is_literal) ==
    IF y_is_literal /\ y.kind = "int" /\ y.v = 0 THEN Mul(_ZERO, x)
    ELSE
        LET bq_mod == BqMod(x, y) IN
        IF Eq3(y, _ZERO) = "T" THEN Mul(_ZERO, x)
        ELSE IF And3(Lt3(y, _ZERO), Gt3(bq_mod, _ZERO)) = "T" THEN Add(y, bq_mod)
        ELSE IF And3(Gt3(y, _ZERO), Lt3(bq_mod, _ZERO)) = "T" THEN Add(y, bq_mod)
        ELSE bq_mod

Operands == {NULL} \cup {IntValue(n) : n \in (-MaxAbsInt)..MaxAbsInt}

InitBinop ==
    /\ pc = "binop_start"
    /\ binop \in [op : {"floordiv", "mod"}, x : Operands, y : Operands,
                  y_is_literal : BOOLEAN]
    /\ binop_result = NULL
    /\ JoinIdle /\ OrderIdle /\ DtypeIdle
    /\ AggIdle /\ CastIdle /\ SeqIdle /\ IndexIdle /\ EqIdle /\ GbqIdle /\ FlagIdle

\* x // y is compiled and evaluated.
ApplyFloordivOp ==
    /\ pc = "binop_start" /\ binop.op = "floordiv"
    /\ binop_result' = floordiv_op(binop.x, binop.y)
    /\ pc' = "binop_done"
    /\ UNCHANGED <<binop, joinVars, orderVars, dtypeVars, aggVars, castVars, seqVars, indexVars,
                   eqVars, gbqVars, flagVars>>

\* x % y is compiled and evaluated.
ApplyModOp ==
    /\ pc = "binop_start" /\ binop.op = "mod"
    /\ binop_result' = mod_op(binop.x, binop.y, binop.y_is_literal)
    /\ pc' = "binop_done"
    /\ UNCHANGED <<binop, joinVars, orderVars, dtypeVars, aggVars, castVars, seqVars, indexVars,
                   eqVars, gbqVars, flagVars>>

NextBinop ==
    \/ ApplyFloordivOp
    \/ ApplyModOp

SpecBinop == InitBinop /\ [][NextBinop]_vars

\* C9: for every dividend x, NULL included, x % 0 and x // 0 do not raise
\* and are NULL if and only if x is NULL (0 otherwise), whether the zero is
\* a literal or the value of a column.
C9_ZeroDivisorSafe ==
    (pc = "binop_done" /\ binop.y = IntValue(0)) =>
        /\ binop_result.kind # "error"
        /\ binop_result.kind = "null" <=> binop.x.kind = "null"
        /\ binop.x.kind = "int" => binop_result = IntValue(0)

C9_Witness ==
    /\ pc = "binop_done"
    /\ binop = [op |-> "floordiv", x |-> IntValue(3), y |-> IntValue(0),
                y_is_literal |-> FALSE]
    /\ binop_result = IntValue(0)

\* C10: for integers x and y # 0, x % y is zero or has the sign of y, is
\* smaller than y in magnitude, and differs from x by a multiple of y.
C10_FlooredModulo ==
    (/\ pc = "binop_done" /\ binop.op = "mod"
     /\ binop.x.kind = "int" /\ binop.y.kind = "int" /\ binop.y.v # 0) =>
        /\ binop_result.kind = "int"
        /\ binop_result.v = 0 \/ Sign(binop_result.v) = Sign(binop.y.v)
        /\ Abs(binop_result.v) < Abs(binop.y.v)
        /\ (binop.x.v - binop_result.v) % Abs(binop.y.v) = 0

C10_Witness ==
    /\ pc = "binop_done" /\ binop.op = "mod"
    /\ binop.x = IntValue(-3) /\ binop.y = IntValue(2)
    /\ binop_result = IntValue(1)

(***************************************************************************)
(* aggregations.py: the window and aggregate operators.  _as_ibis builds   *)
(* an expression over a column; the model evaluates that expression as the *)
(* backend does on the rows the aggregate reads: all rows of the column,   *)
(* or the rows of the window frame when a window is given.  Aggregates of  *)
(* the backend ignore NULL rows and are NULL when no row is left.          *)
(* Numbers are 0 and +-2^k so that log2 and 2^x are exact.                 *)
(***************************************************************************)
MaxRows == 2        \* most rows in the column an operator is applied to
MaxExp == 1         \* numeric values are 0 and +-2^k for k in 0..MaxExp

BoolValue(b) == [kind |-> "bool", v |-> IF b THEN 1 ELSE 0]

FloatValue(n) == [kind |-> "float", v |-> n]

StringValue == [kind |-> "string", v |-> 0]

\* A value of the expression that the model does not evaluate.
Unevaluated == [kind |-> "unevaluated", v |-> 0]

IsNull(x) == x.kind = "null"

RECURSIVE Pow2(_)
Pow2(k) == IF k = 0 THEN 1 ELSE 2 * Pow2(k - 1)

\* log2 of a power of two.
RECURSIVE Log2(_)
Log2(n) == IF n <= 1 THEN 0 ELSE 1 + Log2(n \div 2)

\* ibis DataType.is_boolean / is_numeric: Boolean is not a Numeric type.
is_boolean(type) == type = "boolean"

is_numeric(type) == type \in {"int64", "float64"}

\* The kind of the values of a column of the given type.
KindOf(type) ==
    CASE type = "int64" -> "int"
      [] type = "float64" -> "float"
      [] type = "boolean" -> "bool"
      [] OTHER -> "string"

\* CAST(x AS type) of one value, for the casts the operators make.
CastValue(x, type) ==
    IF IsNull(x) THEN NULL ELSE [kind |-> KindOf(type), v |-> x.v]

AggColumn(type, values) == [type |-> type, values |-> values]

\* Column.cast(type).
cast_column(column, type) ==
    AggColumn(type, [i \in 1..Len(column.values) |-> CastValue(column.values[i], type)])

NoWindow == [present |-> FALSE, upto |-> 0]

\* A window whose frame for the current row is the rows 1..upto.
Window(upto) == [present |-> TRUE, upto |-> upto]

NonNull(rows) == SelectSeq(rows, LAMBDA x : ~IsNull(x))

RECURSIVE SumOfValues(_)
SumOfValues(rows) == IF rows = <<>> THEN 0 ELSE Head(rows).v + SumOfValues(Tail(rows))

\* SUM(x): NULL rows are ignored; NULL when no row is left.
BqSum(rows) ==
    LET nn == NonNull(rows) IN
    IF nn = <<>> THEN NULL ELSE [kind |-> Head(nn).kind, v |-> SumOfValues(nn)]

\* MAX(x) / MIN(x).
BqMax(rows) ==
    LET nn == NonNull(rows) IN
    IF nn = <<>> THEN NULL
    ELSE CHOOSE x \in Range(nn) : \A y \in Range(nn) : y.v <= x.v

BqMin(rows) ==
    LET nn == NonNull(rows) IN
    IF nn = <<>> THEN NULL
    ELSE CHOOSE x \in Range(nn) : \A y \in Range(nn) : x.v <= y.v

\* COUNT(x): the number of non-NULL rows.
BqCount(rows) == IntValue(Len(NonNull(rows)))

\* FIRST_VALUE(x): the first row of the frame, NULL or not.
BqFirst(rows) == IF rows = <<>> THEN NULL ELSE Head(rows)

\* LOGICAL_OR / LOGICAL_AND of three-valued booleans.
BqLogicalOr(tvs) ==
    IF \A i \in 1..Len(tvs) : tvs[i] = "N" THEN "N"
    ELSE IF \E i \in 1..Len(tvs) : tvs[i] = "T" THEN "T" ELSE "F"

BqLogicalAnd(tvs) ==
    IF \A i \in 1..Len(tvs) : tvs[i] = "N" THEN "N"
    ELSE IF \E i \in 1..Len(tvs) : tvs[i] = "F" THEN "F" ELSE "T"

\* column != 0 and column == 0 on one row.
NotZero(x) == IF IsNull(x) THEN "N" ELSE IF x.v # 0 THEN "T" ELSE "F"

IsZero(x) == IF IsNull(x) THEN "N" ELSE IF x.v = 0 THEN "T" ELSE "F"

\* BooleanValue.fillna(True).
fillna_True(tv) == IF tv = "N" THEN "T" ELSE tv

\* value.over(window) when a window is given: the rows the aggregate
\* reads are those of the frame instead of all rows.
_apply_window_if_present(rows, window) ==
    IF window.present THEN SubSeq(rows, 1, window.upto) ELSE rows

\* What _as_ibis produces: the expression built, given by the backend
\* function applied, the type of the column it is applied to and its value
\* on the rows; or the exception raised while building.
AggBuilt(fn, arg_type, value) ==
    [status |-> "ok", exception |-> "", fn |-> fn, arg_type |-> arg_type, value |-> value]

AggRaised(exception) ==
    [status |-> "raised", exception |-> exception, fn |-> "", arg_type |-> "",
     value |-> NULL]

\* The column constrained_op hands to the operation it wraps: a boolean
\* column cast to int64.
constrained_column(column) ==
    IF is_boolean(column.type) THEN cast_column(column, "int64") ELSE column

\* @numeric_op: operation is what the wrapped operation builds on the
\* constrained column; it is built only for a numeric column.
numeric_op(operation, column) ==
    IF is_numeric(constrained_column(column).type) THEN operation
    ELSE AggRaised("ValueError")

\* Mutant: the backend's sum returned as it is.
SumOp_as_ibis_null_sum(column, window) ==
    LET c == constrained_column(column) IN
    numeric_op(AggBuilt("sum", c.type, BqSum(_apply_window_if_present(c.values, window))),
               column)

SumOp_as_ibis(column, window) ==
    LET c == constrained_column(column)
        bq_sum == BqSum(_apply_window_if_present(c.values, window)) IN
    numeric_op(AggBuilt("sum", c.type,
                        IF IsNull(bq_sum) THEN [kind |-> KindOf(c.type), v |-> 0]
                        ELSE bq_sum),
               column)

MeanOp_as_ibis(column, window) ==
    numeric_op(AggBuilt("mean", constrained_column(column).type, Unevaluated), column)

\* The expression ProductOp builds, evaluated; short_circuit tells whether
\* the CASE on any_zeroes is there.
ProductOp_expression(column, window, short_circuit) ==
    LET rows == column.values
        n == Len(rows)
        is_zero == [i \in 1..n |-> IsZero(rows[i])]
        logs == [i \in 1..n |->
                    IF is_zero[i] = "T" THEN FloatValue(0)
                    ELSE IF IsNull(rows[i]) THEN NULL
                    ELSE FloatValue(Log2(Abs(rows[i].v)))]
        logs_sum == BqSum(_apply_window_if_present(logs, window))
        magnitude == IF IsNull(logs_sum) THEN NULL ELSE FloatValue(Pow2(logs_sum.v))
        is_negative == [i \in 1..n |->
                    IntValue(IF ~IsNull(rows[i]) /\ Sign(rows[i].v) = -1 THEN 1 ELSE 0)]
        negative_count == BqSum(_apply_window_if_present(is_negative, window))
        negative_count_parity ==
            IF IsNull(negative_count) THEN NULL ELSE IntValue(negative_count.v % 2)
        any_zeroes == BqLogicalOr(_apply_window_if_present(is_zero, window))
        float_result ==
            IF short_circuit /\ any_zeroes = "T" THEN FloatValue(0)
            ELSE IF IsNull(magnitude) \/ IsNull(negative_count_parity) THEN NULL
            ELSE FloatValue(magnitude.v * (IF negative_count_parity.v = 1 THEN -1 ELSE 1))
    IN AggBuilt("product", column.type, CastValue(float_result, column.type))

\* Mutant: no short-circuit to 0 when a row is zero.
ProductOp_as_ibis_no_zero_case(column, window) ==
    numeric_op(ProductOp_expression(constrained_column(column), window, FALSE), column)

ProductOp_as_ibis(column, window) ==
    numeric_op(ProductOp_expression(constrained_column(column), window, TRUE), column)

MaxOp_as_ibis(column, window) ==
    AggBuilt("max", column.type, BqMax(_apply_window_if_present(column.values, window)))

MinOp_as_ibis(column, window) ==
    AggBuilt("min", column.type, BqMin(_apply_window_if_present(column.values, window)))

\* StdOp and VarOp call x.std() / x.var() on the column as it is; a string
\* column has no such method.
StdOp_as_ibis(x, window) ==
    IF x.type = "string" THEN AggRaised("AttributeError")
    ELSE AggBuilt("std", x.type, Unevaluated)

VarOp_as_ibis(x, window) ==
    IF x.type = "string" THEN AggRaised("AttributeError")
    ELSE AggBuilt("var", x.type, Unevaluated)

CountOp_as_ibis(column, window) ==
    AggBuilt("count", column.type, BqCount(_apply_window_if_present(column.values, window)))

RankOp_as_ibis(column, window) == AggBuilt("rank", column.type, Unevaluated)

FirstOp_as_ibis(column, window) ==
    AggBuilt("first", column.type, BqFirst(_apply_window_if_present(column.values, window)))

ShiftOp_as_ibis(_periods, column, window) ==
    IF _periods = 0 THEN AggBuilt("column", column.type, Unevaluated)
    ELSE IF _periods > 0 THEN AggBuilt("lag", column.type, Unevaluated)
    ELSE AggBuilt("lead", column.type, Unevaluated)

TVValue(tv) == IF tv = "N" THEN NULL ELSE BoolValue(tv = "T")

AllOp_as_ibis(column, window) ==
    LET result == [i \in 1..Len(column.values) |-> NotZero(column.values[i])] IN
    AggBuilt("all", column.type,
             TVValue(fillna_True(BqLogicalAnd(_apply_window_if_present(result, window)))))

\* Mutant: an empty any() filled with FALSE.
AnyOp_as_ibis_fillna_False(column, window) ==
    LET result == [i \in 1..Len(column.values) |-> NotZero(column.values[i])]
        any == BqLogicalOr(_apply_window_if_present(result, window)) IN
    AggBuilt("any", column.type, TVValue(IF any = "N" THEN "F" ELSE any))

AnyOp_as_ibis(column, window) ==
    LET result == [i \in 1..Len(column.values) |-> NotZero(column.values[i])] IN
    AggBuilt("any", column.type,
             TVValue(fillna_True(BqLogicalOr(_apply_window_if_present(result, window)))))

\* An operator object: its class and, for ShiftOp, its periods.
WindowOp(cls, periods) == [cls |-> cls, periods |-> periods]

AggregateOps ==
    {"SumOp", "MeanOp", "ProductOp", "MaxOp", "MinOp", "StdOp", "VarOp", "CountOp",
     "AllOp", "AnyOp"}

\* Mutant: RankOp without its override.
skips_nulls_rank_inherited(op) == op.cls \notin {"CountOp", "ShiftOp"}

\* WindowOp.skips_nulls and the overrides of CountOp, RankOp and ShiftOp.
skips_nulls(op) == op.cls \notin {"CountOp", "RankOp", "ShiftOp"}

_as_ibis(op, column, window) ==
    CASE op.cls = "SumOp" -> SumOp_as_ibis(column, window)
      [] op.cls = "MeanOp" -> MeanOp_as_ibis(column, window)
      [] op.cls = "ProductOp" -> ProductOp_as_ibis(column, window)
      [] op.cls = "MaxOp" -> MaxOp_as_ibis(column, window)
      [] op.cls = "MinOp" -> MinOp_as_ibis(column, window)
      [] op.cls = "StdOp" -> StdOp_as_ibis(column, window)
      [] op.cls = "VarOp" -> VarOp_as_ibis(column, window)
      [] op.cls = "CountOp" -> CountOp_as_ibis(column, window)
      [] op.cls = "RankOp" -> RankOp_as_ibis(column, window)
      [] op.cls = "FirstOp" -> FirstOp_as_ibis(column, window)
      [] op.cls = "ShiftOp" -> ShiftOp_as_ibis(op.periods, column, window)
      [] op.cls = "AllOp" -> AllOp_as_ibis(column, window)
      [] op.cls = "AnyOp" -> AnyOp_as_ibis(column, window)

WindowOps ==
    {WindowOp(cls, 0) : cls \in AggregateOps \cup {"RankOp", "FirstOp"}}
        \cup {WindowOp("ShiftOp", periods) : periods \in {-1, 0, 1}}

ValuesOf(type) ==
    {NULL} \cup
    (CASE type = "boolean" -> {BoolValue(TRUE), BoolValue(FALSE)}
       [] type = "string" -> {StringValue}
       [] OTHER -> {[kind |-> KindOf(type), v |-> s * m] :
                        s \in {-1, 1}, m \in {0} \cup {Pow2(k) : k \in 0..MaxExp}})

AggColumns ==
    UNION {{AggColumn(type, values) :
                values \in UNION {[1..n -> ValuesOf(type)] : n \in 0..MaxRows}} :
           type \in {"int64", "float64", "boolean", "string"}}

Windows(column) == {NoWindow} \cup {Window(upto) : upto \in 0..Len(column.values)}

\* AllOp and AnyOp compare the column with the literal 0, which the backend
\* defines for numeric columns: they are applied to those only.
InitAgg ==
    /\ pc = "agg_start"
    /\ \E op \in WindowOps, column \in AggColumns :
        /\ op.cls \in {"AllOp", "AnyOp"} => is_numeric(column.type)
        /\ \E window \in Windows(column) :
            agg = [op |-> op, column |-> column, window |-> window]
    /\ agg_result = NoValue
    /\ JoinIdle /\ OrderIdle /\ DtypeIdle /\ BinopIdle
    /\ CastIdle /\ SeqIdle /\ IndexIdle /\ EqIdle /\ GbqIdle /\ FlagIdle

\* op._as_ibis(column, window) builds the expression; the caller reads
\* op.skips_nulls to decide whether NULL rows are left out.
ApplyWindowOp ==
    /\ pc = "agg_start"
    /\ _as_ibis(agg.op, agg.column, agg.window).status = "ok"
    /\ agg_result' = [built |-> _as_ibis(agg.op, agg.column, agg.window),
                      skips_nulls |-> skips_nulls(agg.op)]
    /\ pc' = "agg_done"
    /\ UNCHANGED <<agg, joinVars, orderVars, dtypeVars, binopVars, castVars, seqVars,
                   indexVars,
                   eqVars, gbqVars, flagVars>>

\* op._as_ibis(column, window) raises.
ApplyWindowOpRaises ==
    /\ pc = "agg_start"
    /\ _as_ibis(agg.op, agg.column, agg.window).status = "raised"
    /\ agg_result' = [built |-> _as_ibis(agg.op, agg.column, agg.window),
                      skips_nulls |-> skips_nulls(agg.op)]
    /\ pc' = "agg_raised"
    /\ UNCHANGED <<agg, joinVars, orderVars, dtypeVars, binopVars, castVars, seqVars,
                   indexVars,
                   eqVars, gbqVars, flagVars>>

NextAgg ==
    \/ ApplyWindowOp
    \/ ApplyWindowOpRaises

SpecAgg == InitAgg /\ [][NextAgg]_vars

\* The rows the aggregate reads.
RowsRead ==
    IF agg.window.present THEN SubSeq(agg.column.values, 1, agg.window.upto)
    ELSE agg.column.values

AggDone(classes) == pc = "agg_done" /\ agg.op.cls \in classes

\* C11: SumOp over rows that are all NULL, or over no rows, yields 0 and
\* not NULL, with or without a window.
C11_SumOfNothingIsZero ==
    (AggDone({"SumOp"}) /\ NonNull(RowsRead) = <<>>) =>
        /\ ~IsNull(agg_result.built.value)
        /\ agg_result.built.value.v = 0

C11_Witness ==
    /\ AggDone({"SumOp"})
    /\ agg.column = AggColumn("int64", <<NULL, NULL>>)
    /\ agg.window = Window(1)
    /\ agg_result.built.value = IntValue(0)

RECURSIVE SumOfLog2(_)
SumOfLog2(rows) ==
    IF rows = <<>> THEN 0 ELSE Log2(Abs(Head(rows).v)) + SumOfLog2(Tail(rows))

RECURSIVE TrueProduct(_)
TrueProduct(rows) == IF rows = <<>> THEN 1 ELSE Head(rows).v * TrueProduct(Tail(rows))

C14_AsStated ==
    /\ AggDone({"RankOp", "FirstOp", "ShiftOp"}) => agg_result.skips_nulls = FALSE
    /\ AggDone(AggregateOps \ {"CountOp"}) => agg_result.skips_nulls = TRUE

\* C14, amended: rank and shift (and count) report skips_nulls = FALSE;
\* first and every other aggregate operator report the inherited TRUE.
C14_SkipsNulls ==
    /\ AggDone({"RankOp", "ShiftOp", "CountOp"}) => agg_result.skips_nulls = FALSE
    /\ AggDone({"FirstOp"} \cup (AggregateOps \ {"CountOp"})) =>
            agg_result.skips_nulls = TRUE

C14_Witness ==
    /\ AggDone({"FirstOp"})
    /\ agg.column = AggColumn("int64", <<NULL, IntValue(1)>>)
    /\ agg_result.skips_nulls = TRUE

\* C15: sum, mean, product, std and var cast a boolean column to int64
\* before aggregating and raise for a column that is neither numeric nor
\* boolean.
C15_AsStated ==
    (pc \in {"agg_done", "agg_raised"}
        /\ agg.op.cls \in {"SumOp", "MeanOp", "ProductOp", "StdOp", "VarOp"}) =>
        /\ is_boolean(agg.column.type) =>
                agg_result.built.status = "ok" /\ agg_result.built.arg_type = "int64"
        /\ ~is_boolean(agg.column.type) /\ ~is_numeric(agg.column.type) =>
                agg_result.built.status = "raised"

(***************************************************************************)
(* dtypes.py: cast_ibis_value.  An ibis value is its type and the          *)
(* operations applied to the expression it started from.                   *)
(***************************************************************************)
IbisValue(type, ops) == [type |-> type, ops |-> ops]

\* Value.cast(to_type).
cast_(value, to_type) == IbisValue(to_type, Append(value.ops, "Cast"))

\* StringValue.capitalize().
capitalize(value) == IbisValue(value.type, Append(value.ops, "Capitalize"))

ibis_value_to_canonical_type(value) ==
    LET ibis_type == value.type
        nullable_type == copy(ibis_type, TRUE)
    IN cast_(value, nullable_type)

\* Mutant: string values may be cast to int64.
good_casts_string_to_int64 ==
    { <<Ibis("Boolean", ""), {Ibis("Int64", "")}>>,
      <<Ibis("Int64", ""), {Ibis("Boolean", ""), Ibis("Float64", ""), Ibis("String", "")}>>,
      <<Ibis("Float64", ""), {Ibis("String", "")}>>,
      <<Ibis("String", ""), {Ibis("Int64", "")}>>,
      <<Ibis("Date", ""), {}>>,
      <<Ibis("Time", ""), {}>>,
      <<Ibis("Timestamp", "timezone=None"), {Ibis("Timestamp", "timezone=UTC")}>>,
      <<Ibis("Timestamp", "timezone=UTC"), {Ibis("Timestamp", "timezone=None")}>> }

good_casts ==
    { <<Ibis("Boolean", ""), {Ibis("Int64", "")}>>,
      <<Ibis("Int64", ""), {Ibis("Boolean", ""), Ibis("Float64", ""), Ibis("String", "")}>>,
      <<Ibis("Float64", ""), {Ibis("String", "")}>>,
      <<Ibis("String", ""), {}>>,
      <<Ibis("Date", ""), {}>>,
      <<Ibis("Time", ""), {}>>,
      <<Ibis("Timestamp", "timezone=None"), {Ibis("Timestamp", "timezone=UTC")}>>,
      <<Ibis("Timestamp", "timezone=UTC"), {Ibis("Timestamp", "timezone=None")}>> }

cast_ibis_value(value, to_type) ==
    IF value.type = to_type THEN Returned_(value)
    ELSE
        LET value_ == ibis_value_to_canonical_type(value) IN
        IF value_.type \notin Keys(good_casts)
        THEN Raised_("TypeError", "Unexpected value type")
        ELSE IF to_type \in Get(good_casts, value_.type)
        THEN Returned_(cast_(value_, to_type))
        ELSE IF value_.type = Ibis("Boolean", "") /\ to_type = Ibis("String", "")
        THEN Returned_(capitalize(cast_(value_, to_type)))
        ELSE Raised_("TypeError", "Unsupported cast")

InitCast ==
    /\ pc = "cast_start"
    /\ cast \in [value : {IbisValue(t, <<>>) : t \in IbisDtypes}, to_type : IbisDtypes]
    /\ cast_result = NoResult
    /\ JoinIdle /\ OrderIdle /\ DtypeIdle /\ BinopIdle
    /\ AggIdle /\ SeqIdle /\ IndexIdle /\ EqIdle /\ GbqIdle /\ FlagIdle

\* cast_ibis_value returns a value.
CastIbisValue ==
    /\ pc = "cast_start"
    /\ cast_ibis_value(cast.value, cast.to_type).status = "returned"
    /\ cast_result' = cast_ibis_value(cast.value, cast.to_type)
    /\ pc' = "cast_done"
    /\ UNCHANGED <<cast, joinVars, orderVars, dtypeVars, binopVars, aggVars, seqVars,
                   indexVars,
                   eqVars, gbqVars, flagVars>>

\* cast_ibis_value raises TypeError.
CastIbisValueRaises ==
    /\ pc = "cast_start"
    /\ cast_ibis_value(cast.value, cast.to_type).status = "raised"
    /\ cast_result' = cast_ibis_value(cast.value, cast.to_type)
    /\ pc' = "cast_done"
    /\ UNCHANGED <<cast, joinVars, orderVars, dtypeVars, binopVars, aggVars, seqVars,
                   indexVars,
                   eqVars, gbqVars, flagVars>>

NextCast ==
    \/ CastIbisValue
    \/ CastIbisValueRaises

SpecCast == InitCast /\ [][NextCast]_vars

\* The casts the claim lists, as (source type, target type) pairs.
AllowListedCasts ==
    { <<Ibis("Boolean", ""), Ibis("Int64", "")>>,
      <<Ibis("Int64", ""), Ibis("Boolean", "")>>,
      <<Ibis("Int64", ""), Ibis("Float64", "")>>,
      <<Ibis("Int64", ""), Ibis("String", "")>>,
      <<Ibis("Float64", ""), Ibis("String", "")>>,
      <<Ibis("Timestamp", "timezone=None"), Ibis("Timestamp", "timezone=UTC")>>,
      <<Ibis("Timestamp", "timezone=UTC"), Ibis("Timestamp", "timezone=None")>>,
      <<Ibis("Boolean", ""), Ibis("String", "")>> }

\* C16: cast_ibis_value returns only for an allow-listed cast (types named
\* without their nullable flag) or for a cast of a value to its own type,
\* and raises TypeError for every other pair; between nullable types every
\* allow-listed cast returns a value of the target type, and the result is
\* capitalized exactly for bool to string.
C16_OnlyAllowListedCasts ==
    pc = "cast_done" =>
        LET from == cast.value.type
            to == cast.to_type
            listed == <<copy(from, TRUE), copy(to, TRUE)>> \in AllowListedCasts
            returned == cast_result.status = "returned" IN
        /\ returned => listed \/ from = to
        /\ ~returned => cast_result.exception = "TypeError"
        /\ from = to => returned /\ cast_result.value = cast.value
        /\ (listed /\ from.nullable /\ to.nullable) => returned
        /\ (returned /\ from # to) =>
                /\ cast_result.value.type = to
                /\ cast_result.value.ops[Len(cast_result.value.ops)] = "Capitalize"
                        <=> (copy(from, TRUE) = Ibis("Boolean", "") /\ to = Ibis("String", ""))

C16_Witness ==
    /\ pc = "cast_done"
    /\ cast.value.type = Ibis("Boolean", "") /\ cast.to_type = Ibis("String", "")
    /\ cast_result = Returned_(IbisValue(Ibis("String", ""), <<"Cast", "Cast", "Capitalize">>))

(***************************************************************************)
(* session.py: Session._create_sequential_ordering.  A table expression is *)
(* its column names and its rows (a row maps each column to a value); the  *)
(* backend numbers the rows of an unordered table in an order it chooses.  *)
(***************************************************************************)
MaxTableRows == 3   \* most rows in the table handed in

\* bigframes.core.ExpressionOrdering with its keyword arguments: the value
\* columns, the column id of ordering_id_column ("" for None), is_sequential
\* and ordering_encoding_size (0 for None).
OrderingSpec(ordering_value_columns, ordering_id, is_sequential, encoding_size) ==
    [present |-> TRUE,
     ordering_value_columns |-> ordering_value_columns,
     ordering_id |-> ordering_id,
     is_sequential |-> is_sequential,
     ordering_encoding_size |-> encoding_size]

is_total(ordering) == ordering.ordering_id # ""

IbisTable(columns, rows) == [columns |-> columns, rows |-> rows]

\* guid.generate_guid(prefix): the prefix and a random suffix.
Guids == {"4f1a", "9c2e"}

generate_guid(prefix, guid) == prefix \o guid

\* ibis.row_number() of the row the backend numbers n-th (ROW_NUMBER() is
\* n): ibis counts rows from 0.
row_number(n) == n - 1

\* Mutant: the backend's ROW_NUMBER() taken as it is, counting from 1.
default_ordering_col_from_one(n) == n

\* ibis.row_number().cast(ibis_dtypes.int64).name(default_ordering_name)
default_ordering_col(n) == row_number(n)

\* table.mutate(**{name: column}): every row gets the new column; numbering
\* gives the position at which the backend numbers each row.
mutate(table, column_name, numbering) ==
    IbisTable(Append(table.columns, column_name),
              [i \in 1..Len(table.rows) |->
                  [c \in DOMAIN table.rows[i] \cup {column_name} |->
                      IF c = column_name THEN default_ordering_col(numbering[i])
                      ELSE table.rows[i][c]]])

\* Session._query_to_session_table: CREATE TEMP TABLE ... AS query_text
\* stores the rows of the query under a new table id; a Conflict from a
\* retried job is swallowed, the table being there already.
_query_to_session_table(tables, table_id, table, cluster_cols) ==
    tables \cup {[table_id |-> table_id, columns |-> table.columns, rows |-> table.rows,
                  cluster_cols |-> cluster_cols]}

\* ibis_client.sql("SELECT * FROM `table_id`").
select_all(tables, table_id) ==
    LET stored == CHOOSE t \in tables : t.table_id = table_id IN
    IbisTable(stored.columns, stored.rows)

_create_sequential_ordering(tables, table, index_cols, table_id, guid, numbering) ==
    LET default_ordering_name == generate_guid("bigframes_ordering_", guid)
        mutated == mutate(table, default_ordering_name, numbering)
        tables_ == _query_to_session_table(tables, table_id, mutated,
                                           index_cols \o <<default_ordering_name>>)
        ordering == OrderingSpec(<<>>, default_ordering_name, TRUE, 0)
    IN [tables |-> tables_,
        table |-> select_all(tables_, table_id),
        ordering |-> ordering]

TableIds == {"t1", "t2"}

SeqTables ==
    {IbisTable(<<"a">>, rows) :
        rows \in UNION {[1..n -> {[a |-> 1], [a |-> 2]}] : n \in 0..MaxTableRows}}

InitSeq ==
    /\ pc = "seq_start"
    /\ session \in [table : SeqTables, index_cols : {<<>>, <<"a">>}, tables : {{}}]
    /\ seq_result = NoValue
    /\ JoinIdle /\ OrderIdle /\ DtypeIdle /\ BinopIdle
    /\ AggIdle /\ CastIdle /\ IndexIdle /\ EqIdle /\ GbqIdle /\ FlagIdle

\* Session._create_sequential_ordering(table, index_cols): adds the row
\* number column, materializes the table and returns it with its ordering.
CreateSequentialOrdering ==
    /\ pc = "seq_start"
    /\ \E table_id \in TableIds, guid \in Guids,
          numbering \in TuplesOfSet(1..Len(session.table.rows)) :
            LET r == _create_sequential_ordering(session.tables, session.table,
                                                 session.index_cols, table_id, guid,
                                                 numbering) IN
            /\ session' = [session EXCEPT !.tables = r.tables]
            /\ seq_result' = [table |-> r.table, ordering |-> r.ordering]
    /\ pc' = "seq_done"
    /\ UNCHANGED <<joinVars, orderVars, dtypeVars, binopVars, aggVars, castVars, indexVars,
                   eqVars, gbqVars, flagVars>>

NextSeq == CreateSequentialOrdering

SpecSeq == InitSeq /\ [][NextSeq]_vars

\* C17: the ordering returned by _create_sequential_ordering is sequential
\* and total, its order id column is a column of the returned table, and
\* over the N rows of the table that column takes exactly the values
\* 0..N-1, for every N >= 0.
C17_SequentialOrdering ==
    pc = "seq_done" =>
        LET ordering == seq_result.ordering
            table == seq_result.table
            N == Len(session.table.rows) IN
        /\ ordering.is_sequential
        /\ is_total(ordering)
        /\ ordering.ordering_id \in Range(table.columns)
        /\ Len(table.rows) = N
        /\ {table.rows[i][ordering.ordering_id] : i \in 1..N} = 0..(N - 1)
        /\ \A i \in 1..N : table.rows[i]["a"] = session.table.rows[i]["a"]

C17_Witness ==
    /\ pc = "seq_done"
    /\ Len(session.table.rows) = 3
    /\ seq_result.ordering.ordering_id = "bigframes_ordering_4f1a"
    /\ seq_result.table.rows[1]["bigframes_ordering_4f1a"] = 2
    /\ seq_result.table.rows[3]["bigframes_ordering_4f1a"] = 0

(***************************************************************************)
(* index.py: Index.join.  An Index (or another ImplicitJoiner) is the      *)
(* expression of its block, its index column and its name.  Index.join     *)
(* first tries the row-identity join of the two expressions (through       *)
(* ImplicitJoiner.join) and falls back to a join on the index columns when *)
(* that raises ValueError or NotImplementedError.                          *)
(***************************************************************************)
Index(expr, index_column, index_name) ==
    [kind |-> "Index", expr |-> expr, index_column |-> index_column, name |-> index_name]

ImplicitJoiner(expr, index_name) ==
    [kind |-> "ImplicitJoiner", expr |-> expr, index_column |-> "", name |-> index_name]

NoIndex == Index(NoExpr, "", "")

\* What Index.join produced: the combined index or the exception raised.
IndexOutcome(status, exception, index) ==
    [status |-> status, exception |-> exception, index |-> index]

\* str() of a non-negative integer.
RECURSIVE ToStr(_)
ToStr(n) ==
    LET digit == <<"0", "1", "2", "3", "4", "5", "6", "7", "8", "9">> IN
    IF n < 10 THEN digit[n + 1] ELSE ToStr(n \div 10) \o digit[(n % 10) + 1]

ColumnNames(columns) == [i \in 1..Len(columns) |-> columns[i].name]

\* BigFramesExpr.to_ibis_expr(ordering_mode="ordered_col", order_col_name):
\* the value columns of the expression followed by its order id column.
to_ibis_expr(expr, order_col_name) ==
    [table |-> expr.table, columns |-> Append(ColumnNames(expr.columns), order_col_name)]

\* ibis.join(left_table, right_table, predicates=left_index == right_index, how=how).
\* ibis renames the columns whose names the two tables share with the
\* suffixes _x and _y; in an inner join on two columns of the same name
\* that column is kept once, under its own name (side "LR").
combined_table(left_table, left_index, right_table, right_index, how_) ==
    LET overlap == Range(left_table.columns) \cap Range(right_table.columns)
        equal == IF how_ = "inner" /\ left_index = right_index THEN {left_index} ELSE {}
        right_kept == SelectSeq(right_table.columns, LAMBDA c : c \notin equal)
        left_projections ==
            [i \in 1..Len(left_table.columns) |->
                LET c == left_table.columns[i] IN
                [side |-> IF c \in equal THEN "LR" ELSE "L", key |-> c,
                 name |-> IF c \in overlap \ equal THEN c \o "_x" ELSE c, masks |-> <<>>]]
        right_projections ==
            [j \in 1..Len(right_kept) |->
                [side |-> "R", key |-> right_kept[j],
                 name |-> IF right_kept[j] \in overlap THEN right_kept[j] \o "_y"
                          ELSE right_kept[j],
                 masks |-> <<>>]]
    IN [table |-> "join(" \o left_table.table \o "." \o left_index \o " = "
                    \o right_table.table \o "." \o right_index \o ", " \o how_ \o ")",
        columns |-> left_projections \o right_projections]

\* combined_table[key]: the column of that name; ibis raises when the table
\* has no such column (side "missing").
TableColumn(table, key) ==
    IF \E i \in 1..Len(table.columns) : table.columns[i].name = key
    THEN table.columns[CHOOSE i \in 1..Len(table.columns) : table.columns[i].name = key]
    ELSE [side |-> "missing", key |-> key, name |-> key, masks |-> <<>>]

\* The resolvers of the fallback path (index.py:132-150).
get_column_left(key, self_index_column, right_table, how_, table) ==
    LET key_ == IF how_ = "inner" /\ key = self_index_column THEN key
                ELSE IF key \in Range(right_table.columns) THEN key \o "_x"
                ELSE key
    IN TableColumn(table, key_)

get_column_right(key, other_index_column, left_table, how_, table) ==
    LET key_ == IF how_ = "inner" /\ key = other_index_column THEN key
                ELSE IF key \in Range(left_table.columns) THEN key \o "_y"
                ELSE key
    IN TableColumn(table, key_)

\* The resolvers of the row-identity path: joined_expr.get_any_column of
\* the renamed key, looked up among the columns and the hidden columns.
get_any_column(expr, key) ==
    LET all == expr.columns \o expr.meta_columns IN
    all[CHOOSE i \in 1..Len(all) : all[i].name = key]

\* The column _merge_order_ids builds from the order id columns of the
\* combined table: the two stringified ids concatenated, under a new name.
merged_order_id_column(left_id, left_encoding_size, right_id, right_encoding_size, how_, guid) ==
    LET first == IF how_ = "right" THEN right_id ELSE left_id
        first_size == IF how_ = "right" THEN right_encoding_size ELSE left_encoding_size
        second == IF how_ = "right" THEN left_id ELSE right_id
        second_size == IF how_ = "right" THEN left_encoding_size ELSE right_encoding_size
    IN [side |-> "join",
        key |-> "stringify_order_id(" \o first.name \o ", " \o ToStr(first_size) \o ") + "
                \o "stringify_order_id(" \o second.name \o ", " \o ToStr(second_size) \o ")",
        name |-> generate_guid("bigframes_ordering_id_", guid),
        masks |-> <<>>]

\* ibis.coalesce(left, right).name(index_name_orig + "_z")
joined_index_col(left_col, right_col, index_name_orig) ==
    [side |-> "coalesce", key |-> left_col.name \o ", " \o right_col.name,
     name |-> index_name_orig \o "_z", masks |-> <<>>]

\* The ordering of the result: sorted by the joined index when sort is set.
index_join_ordering(original_ordering, index_col, sort) ==
    IF sort
    THEN with_ordering_columns(original_ordering,
                               <<OrderingColumnReference(index_col.name, TRUE)>>)
    ELSE original_ordering

\* combined_index.name = self.name if self.name == other.name else None
combined_name(self, other) == IF self.name = other.name THEN self.name ELSE ""

\* Index.join after the row-identity join returned joined_expr
\* (index.py:98-104, 174-229).
index_join_row_identity(self, other, sort, joined_expr) ==
    LET left_of(key) == get_any_column(joined_expr, map_left_id(key))
        right_of(key) == get_any_column(joined_expr, map_right_id(key))
        index_col == joined_index_col(left_of(self.index_column),
                                      right_of(other.index_column), self.index_column)
        columns == <<index_col>>
                    \o [i \in 1..Len(self.expr.columns) |-> left_of(self.expr.columns[i].name)]
                    \o [i \in 1..Len(other.expr.columns) |-> right_of(other.expr.columns[i].name)]
        ordering == index_join_ordering(joined_expr.ordering, index_col, sort)
    IN Index(BigFramesExpr(joined_expr.table, columns, joined_expr.meta_columns, ordering,
                           joined_expr.predicates),
             index_col.name, combined_name(self, other))

\* Index.join after the row-identity join raised ValueError or
\* NotImplementedError (index.py:105-172, 174-229).
index_join_fallback(self, other, how_, sort, guid) ==
    LET left_table == to_ibis_expr(self.expr, ORDER_ID_COLUMN)
        right_table == to_ibis_expr(other.expr, ORDER_ID_COLUMN)
        table == combined_table(left_table, self.index_column,
                                right_table, other.index_column, how_)
        left_of(key) == get_column_left(key, self.index_column, right_table, how_, table)
        right_of(key) == get_column_right(key, other.index_column, left_table, how_, table)
        left_ordering_encoding_size ==
            ordering_encoding_size(self.expr.ordering.ordering_encoding_size)
        right_ordering_encoding_size ==
            ordering_encoding_size(other.expr.ordering.ordering_encoding_size)
        new_order_id_col ==
            merged_order_id_column(left_of(ORDER_ID_COLUMN), left_ordering_encoding_size,
                                   right_of(ORDER_ID_COLUMN), right_ordering_encoding_size,
                                   how_, guid)
        original_ordering ==
            OrderingSpec(<<>>, new_order_id_col.name, FALSE,
                         left_ordering_encoding_size + right_ordering_encoding_size)
        index_col == joined_index_col(left_of(self.index_column),
                                      right_of(other.index_column), self.index_column)
        columns == <<index_col>>
                    \o [i \in 1..Len(self.expr.columns) |-> left_of(self.expr.columns[i].name)]
                    \o [i \in 1..Len(other.expr.columns) |-> right_of(other.expr.columns[i].name)]
        ordering == index_join_ordering(original_ordering, index_col, sort)
    IN Index(BigFramesExpr(table.table, columns, <<new_order_id_col>>, ordering, <<>>),
             index_col.name, combined_name(self, other))

\* Which exception the except branch of Index.join raises; "" when it
\* returns: the encoding size of a missing ordering is read (index.py:152-159)
\* or a resolver asks the combined table for a column it does not have
\* (index.py:140, 150).
index_join_fallback_raises(self, other, how_) ==
    IF ~(self.expr.ordering.present /\ other.expr.ordering.present) THEN "AttributeError"
    ELSE LET columns == index_join_fallback(self, other, how_, FALSE,
                                            CHOOSE guid \in Guids : TRUE).expr.columns IN
         IF \E i \in 1..Len(columns) : columns[i].side = "missing" THEN "IbisTypeError"
         ELSE ""

\* Mutant: the join mode is not checked.
index_join_raises_how_unchecked(other, how_) ==
    IF other.kind # "Index" THEN "ValueError" ELSE ""

\* Which exception Index.join raises before it tries any join; "" when it
\* goes on (index.py:84-96).
index_join_raises(other, how_) ==
    IF other.kind # "Index" THEN "ValueError"
    ELSE IF how_ \notin IndexJoinHows THEN "NotImplementedError"
    ELSE ""

\* An expression without ordering, with the fields of OrderingSpec.
NoOrderingSpec ==
    [present |-> FALSE, ordering_value_columns |-> <<>>, ordering_id |-> "",
     is_sequential |-> FALSE, ordering_encoding_size |-> 0]

\* No ordering; ordered by a value column only; sequential order id of the
\* default width; order id of width 2 after a descending sort.
IndexOrderingChoices(side) ==
    { [ordering |-> NoOrderingSpec, meta_columns |-> <<>>],
      [ordering |-> OrderingSpec(<<OrderingColumnReference(ColumnKeys(side)[1], TRUE)>>,
                                 "", FALSE, 0),
       meta_columns |-> <<>>],
      [ordering |-> OrderingSpec(<<>>, ORDER_ID_COLUMN, TRUE, 0),
       meta_columns |-> <<Column(side, ORDER_ID_COLUMN)>>],
      [ordering |-> OrderingSpec(<<OrderingColumnReference(ColumnKeys(side)[2], FALSE)>>,
                                 ORDER_ID_COLUMN, FALSE, 2),
       meta_columns |-> <<Column(side, ORDER_ID_COLUMN)>>] }

IndexPredLists == {<<>>, <<Atom("p1")>>, <<Atom("p2")>>}

IndexExprs(side, tables) ==
    { BigFramesExpr(t, Columns(side), o.meta_columns, o.ordering, ps) :
        t \in tables, o \in IndexOrderingChoices(side), ps \in IndexPredLists }

IndexHows == IndexJoinHows \cup {"cross"}

InitIndex ==
    /\ pc = "index_start"
    /\ \E self_expr \in IndexExprs("L", {"scalars"}), other_expr \in IndexExprs("R", Tables),
          self_column \in {"a", "b"}, other_column \in {"b", "c"},
          other_name \in {"rowindex", "string_col"}, other_is_index \in BOOLEAN,
          how_ \in IndexHows, sort \in BOOLEAN :
            index_call =
                [self |-> Index(self_expr, self_column, "rowindex"),
                 other |-> IF other_is_index
                           THEN Index(other_expr, other_column, other_name)
                           ELSE ImplicitJoiner(other_expr, other_name),
                 how |-> how_, sort |-> sort]
    /\ index_joined = IndexOutcome("none", "", NoIndex)
    /\ JoinIdle /\ OrderIdle /\ DtypeIdle /\ BinopIdle
    /\ AggIdle /\ CastIdle /\ SeqIdle /\ EqIdle /\ GbqIdle /\ FlagIdle

\* other is not an Index, or how is not a join mode (index.py:84-96).
IndexJoinRejects ==
    /\ pc = "index_start"
    /\ index_join_raises(index_call.other, index_call.how) # ""
    /\ index_joined' = IndexOutcome("raised",
                                    index_join_raises(index_call.other, index_call.how),
                                    NoIndex)
    /\ pc' = "index_raised"
    /\ UNCHANGED <<index_call, joinVars, orderVars, dtypeVars, binopVars, aggVars, castVars,
                   seqVars,
                   eqVars, gbqVars, flagVars>>

\* super().join(other, how=how): ImplicitJoiner.join hands the expressions
\* of the two sides to join_by_row_identity (index.py:98-103).
IndexJoinCallsSuper ==
    /\ pc = "index_start"
    /\ index_join_raises(index_call.other, index_call.how) = ""
    /\ left' = index_call.self.expr
    /\ right' = index_call.other.expr
    /\ how' = index_call.how
    /\ pc' = "join_start"
    /\ UNCHANGED <<index_call, index_joined, joined, sql_compiled, sql_executed, orderVars,
                   dtypeVars, binopVars, aggVars, castVars, seqVars,
                   eqVars, gbqVars, flagVars>>

\* Mutant: the combined index is built into the expression of self.
IndexJoinRowIdentity_in_place ==
    /\ pc = "join_returned"
    /\ index_joined' = IndexOutcome("ok", "",
                            index_join_row_identity(index_call.self, index_call.other,
                                                    index_call.sort, joined.expr))
    /\ index_call' = [index_call EXCEPT !.self.expr = index_joined'.index.expr]
    /\ pc' = "index_returned"
    /\ UNCHANGED <<joinVars, orderVars, dtypeVars, binopVars, aggVars, castVars, seqVars,
                   eqVars, gbqVars, flagVars>>

\* The row-identity join returned: the combined index is built on its
\* expression (index.py:101-104, 174-229).
IndexJoinRowIdentity ==
    /\ pc = "join_returned"
    /\ index_joined' = IndexOutcome("ok", "",
                            index_join_row_identity(index_call.self, index_call.other,
                                                    index_call.sort, joined.expr))
    /\ pc' = "index_returned"
    /\ UNCHANGED <<index_call, joinVars, orderVars, dtypeVars, binopVars, aggVars, castVars,
                   seqVars,
                   eqVars, gbqVars, flagVars>>

\* The row-identity join raised ValueError or NotImplementedError: the two
\* sides are joined on their index columns (index.py:105-229).
IndexJoinFallback ==
    /\ pc = "join_raised"
    /\ joined.exception \in {"ValueError", "NotImplementedError"}
    /\ left.ordering.present /\ right.ordering.present
    /\ index_join_fallback_raises(index_call.self, index_call.other, index_call.how) = ""
    /\ \E guid \in Guids :
        index_joined' = IndexOutcome("ok", "",
                            index_join_fallback(index_call.self, index_call.other,
                                                index_call.how, index_call.sort, guid))
    /\ pc' = "index_returned"
    /\ UNCHANGED <<index_call, joinVars, orderVars, dtypeVars, binopVars, aggVars, castVars,
                   seqVars,
                   eqVars, gbqVars, flagVars>>

\* The fallback reads _ordering.ordering_encoding_size of a side that has
\* no ordering (index.py:150-157).
IndexJoinFallbackNoOrdering ==
    /\ pc = "join_raised"
    /\ joined.exception \in {"ValueError", "NotImplementedError"}
    /\ ~(left.ordering.present /\ right.ordering.present)
    /\ index_joined' = IndexOutcome("raised", "AttributeError", NoIndex)
    /\ pc' = "index_raised"
    /\ UNCHANGED <<index_call, joinVars, orderVars, dtypeVars, binopVars, aggVars, castVars,
                   seqVars,
                   eqVars, gbqVars, flagVars>>

\* A resolver of the fallback asks the combined table for a column under a
\* name it does not have there (index.py:140, 150, 195-196).
IndexJoinFallbackColumnNotFound ==
    /\ pc = "join_raised"
    /\ joined.exception \in {"ValueError", "NotImplementedError"}
    /\ index_join_fallback_raises(index_call.self, index_call.other, index_call.how)
            = "IbisTypeError"
    /\ index_joined' = IndexOutcome("raised", "IbisTypeError", NoIndex)
    /\ pc' = "index_raised"
    /\ UNCHANGED <<index_call, joinVars, orderVars, dtypeVars, binopVars, aggVars, castVars,
                   seqVars, eqVars, gbqVars, flagVars>>

\* An exception of the row-identity join that Index.join does not catch.
IndexJoinPropagates ==
    /\ pc = "join_raised"
    /\ joined.exception \notin {"ValueError", "NotImplementedError"}
    /\ index_joined' = IndexOutcome("raised", joined.exception, NoIndex)
    /\ pc' = "index_raised"
    /\ UNCHANGED <<index_call, joinVars, orderVars, dtypeVars, binopVars, aggVars, castVars,
                   seqVars,
                   eqVars, gbqVars, flagVars>>

NextIndex ==
    \/ IndexJoinRejects
    \/ IndexJoinCallsSuper
    \/ JoinUnsupportedHow
    \/ JoinDifferentTables
    \/ JoinUnboundMetaColumns
    \/ JoinReturns
    \/ IndexJoinRowIdentity
    \/ IndexJoinFallback
    \/ IndexJoinFallbackNoOrdering
    \/ IndexJoinFallbackColumnNotFound
    \/ IndexJoinPropagates

SpecIndex == InitIndex /\ [][NextIndex]_vars

IndexDone == pc \in {"index_returned", "index_raised"}

\* C18: joining never changes its inputs: the arguments of Index.join and,
\* once join_by_row_identity is called, its two expressions stay as they
\* are through every step, and an expression or index that is returned is
\* not one of the inputs.
C18_JoinKeepsInputs ==
    [][/\ index_call' = index_call
       /\ pc # "index_start" => (left' = left /\ right' = right)
       /\ pc' = "join_start" =>
            (left' = index_call.self.expr /\ right' = index_call.other.expr)
       /\ pc' = "join_returned" => joined'.expr \notin {left', right'}
       /\ pc' = "index_returned" =>
            index_joined'.index.expr \notin {index_call.self.expr, index_call.other.expr}
      ]_vars

C18_Witness ==
    /\ pc = "index_returned"
    /\ joined.status = "ok"
    /\ left = index_call.self.expr /\ right = index_call.other.expr
    /\ index_call.sort
    /\ index_joined.status = "ok"
    /\ index_joined.index.expr.ordering # left.ordering

\* C19: Index.join raises ValueError for a partner that is not an Index
\* and NotImplementedError for a how outside {outer, left, right, inner},
\* in both cases before join_by_row_identity is called and without a
\* result; join_by_row_identity raises NotImplementedError for a how
\* outside {outer, left, inner} without a result and without compiling SQL.
C19_InvalidJoinsRejected ==
    /\ (IndexDone /\ index_call.other.kind # "Index") =>
            /\ index_joined = IndexOutcome("raised", "ValueError", NoIndex)
            /\ joined = NotCalled /\ sql_compiled = 0
    /\ (IndexDone /\ index_call.other.kind = "Index"
            /\ index_call.how \notin {"outer", "left", "right", "inner"}) =>
            /\ index_joined = IndexOutcome("raised", "NotImplementedError", NoIndex)
            /\ joined = NotCalled /\ sql_compiled = 0
    /\ (pc # "index_start" /\ pc # "join_start" /\ joined # NotCalled
            /\ how \notin {"outer", "left", "inner"}) =>
            /\ joined = Outcome("raised", "NotImplementedError", NoExpr)
            /\ sql_compiled = 0

C19_Witness ==
    /\ pc = "index_raised"
    /\ index_call.other.kind = "Index"
    /\ index_call.how = "cross"
    /\ index_joined.exception = "NotImplementedError"
    /\ joined = NotCalled

(***************************************************************************)
(* Further properties of the row-identity join.                            *)
(***************************************************************************)

\* C23 as stated: for every supported how and every two expressions over
\* the same table join_by_row_identity returns a joined expression; when a
\* side has no ordering the result has the empty default ordering and no
\* hidden columns.
C23_AsStated ==
    (Called /\ how \in SUPPORTED_ROW_IDENTITY_HOW /\ left.table = right.table) =>
        /\ joined.status = "ok"
        /\ ~(left.ordering.present /\ right.ordering.present) =>
              /\ joined.expr.ordering = ExpressionOrdering(<<>>, "")
              /\ joined.expr.meta_columns = <<>>

\* C26: in the result of a row-identity join the column of every left id k
\* is named k_x and that of every right id k is named k_y, the two
\* resolvers returned map k to those columns, and the names of the columns
\* and hidden columns of the result are pairwise distinct.
C26_SuffixedColumns ==
    Returned =>
        LET result == joined.expr
            nl == Len(left.columns)
            names == ColumnNames(result.columns \o result.meta_columns) IN
        /\ Len(result.columns) = nl + Len(right.columns)
        /\ \A i \in 1..nl :
              /\ result.columns[i].side = "L"
              /\ result.columns[i].key = left.columns[i].key
              /\ result.columns[i].name = left.columns[i].name \o "_x"
              /\ get_any_column(result, map_left_id(left.columns[i].name)) = result.columns[i]
        /\ \A j \in 1..Len(right.columns) :
              /\ result.columns[nl + j].side = "R"
              /\ result.columns[nl + j].key = right.columns[j].key
              /\ result.columns[nl + j].name = right.columns[j].name \o "_y"
              /\ get_any_column(result, map_right_id(right.columns[j].name))
                    = result.columns[nl + j]
        /\ \A i, j \in 1..Len(names) : names[i] = names[j] => i = j

C26_Witness ==
    /\ Returned
    /\ \E i \in 1..Len(left.columns), j \in 1..Len(right.columns) :
          left.columns[i].name = right.columns[j].name
    /\ Len(joined.expr.meta_columns) = 2
    /\ joined.expr.columns[2].name = "b_x"
    /\ joined.expr.columns[3].name = "b_y"

(***************************************************************************)
(* Further properties of Index.join.                                       *)
(***************************************************************************)

\* The row-identity join raised an exception that Index.join catches.
FellBack ==
    /\ IndexDone
    /\ joined.status = "raised"
    /\ joined.exception \in {"ValueError", "NotImplementedError"}

\* C22 as stated: whenever the row-identity join of two Index objects
\* raises ValueError or NotImplementedError, Index.join falls back to the
\* join on the index columns and returns a result; how = 'right' is always
\* answered that way.
C22_AsStated ==
    /\ FellBack => index_joined.status = "ok"
    /\ (IndexDone /\ index_call.other.kind = "Index" /\ index_call.how = "right") =>
            FellBack /\ index_joined.status = "ok"

\* C27 as stated: in the join on the index columns get_column_left maps a
\* column id to the id suffixed _x when the right table has a column of
\* that id and to the id itself otherwise (get_column_right: _y, left
\* table), except that in an inner join a join key that is the same on
\* both sides keeps its name; the name resolved is that of the requested
\* side's column in the joined table.
C27_AsStated ==
    (FellBack /\ left.ordering.present /\ right.ordering.present) =>
        LET self == index_call.self
            other == index_call.other
            left_table == to_ibis_expr(self.expr, ORDER_ID_COLUMN)
            right_table == to_ibis_expr(other.expr, ORDER_ID_COLUMN)
            table == combined_table(left_table, self.index_column,
                                    right_table, other.index_column, index_call.how)
            same_key(key) == /\ index_call.how = "inner"
                             /\ key = self.index_column /\ key = other.index_column
            expected(key, others, suffix) ==
                IF same_key(key) THEN key
                ELSE IF key \in Range(others.columns) THEN key \o suffix ELSE key
        IN
        /\ \A key \in Range(left_table.columns) :
              LET c == get_column_left(key, self.index_column, right_table,
                                       index_call.how, table) IN
              /\ c.name = expected(key, right_table, "_x")
              /\ c.key = key /\ c.side \in {"L", "LR"}
        /\ \A key \in Range(right_table.columns) :
              LET c == get_column_right(key, other.index_column, left_table,
                                        index_call.how, table) IN
              /\ c.name = expected(key, left_table, "_y")
              /\ c.key = key /\ c.side \in {"R", "LR"}

(***************************************************************************)
(* index.py: the except branch of Index.join on the rows of the two        *)
(* tables.  Each row of a side carries the value of its index column and   *)
(* its order id; the tables are joined on the index columns and Index.join *)
(* builds the merged order id and the coalesced index of every joined row. *)
(***************************************************************************)

\* The rows of ibis.join(left_table, right_table, left_index == right_index, how):
\* the pairs of rows whose index values are equal (NULL equals nothing),
\* and the unmatched rows of the side(s) the join mode keeps, with NULL in
\* the other side's columns.
join_rows(left_rows, right_rows, how_) ==
    LET match(l, r) == ~IsNull(l.index) /\ ~IsNull(r.index) /\ l.index = r.index
        row(l_index, l_id, r_index, r_id) ==
            [left_index |-> l_index, left_order_id |-> l_id,
             right_index |-> r_index, right_order_id |-> r_id]
        matched == {row(l.index, IntValue(l.order_id), r.index, IntValue(r.order_id)) :
                        <<l, r>> \in {p \in left_rows \X right_rows : match(p[1], p[2])}}
        left_only == {row(l.index, IntValue(l.order_id), NULL, NULL) :
                        l \in {l \in left_rows : \A r \in right_rows : ~match(l, r)}}
        right_only == {row(NULL, NULL, r.index, IntValue(r.order_id)) :
                        r \in {r \in right_rows : \A l \in left_rows : ~match(l, r)}}
    IN matched
        \cup (IF how_ \in {"left", "outer"} THEN left_only ELSE {})
        \cup (IF how_ \in {"right", "outer"} THEN right_only ELSE {})

\* The value of the column _merge_order_ids builds, on one joined row: CAST,
\* LPAD and the concatenation of strings are NULL on a NULL order id.
new_order_id_value(left_id, left_encoding_size, right_id, right_encoding_size, how_) ==
    IF IsNull(left_id) \/ IsNull(right_id) THEN [null |-> TRUE, string |-> <<>>]
    ELSE [null |-> FALSE,
          string |-> _merge_order_ids(left_id.v, left_encoding_size,
                                      right_id.v, right_encoding_size, how_)]

\* Mutant: the left index alone.
coalesce_left_only(left_value, right_value) == left_value

\* ibis.coalesce(left, right) on one row.
coalesce(left_value, right_value) ==
    IF IsNull(left_value) THEN right_value ELSE left_value

\* The rows of one side: each order id at most once.
EqRows ==
    LET ids == {3, 10} IN
    UNION {[chosen -> {NULL, IntValue(1), IntValue(2)}] : chosen \in SUBSET ids}

RowsOf(rows) == {[index |-> rows[id], order_id |-> id] : id \in DOMAIN rows}

\* The columns of the right table: it shares b with the left table, and
\* its other column is c or a_z.
EqRightColumns == {<<"b", "c">>, <<"b", "a_z">>}

InitEq ==
    /\ pc = "eq_start"
    /\ \E left_size \in {0, 2}, right_size \in {0, 2}, how_ \in IndexJoinHows,
          self_column \in {"a", "b"}, right_columns \in EqRightColumns, other_second \in BOOLEAN,
          left_rows \in EqRows, right_rows \in EqRows :
            eq_join =
                [self |-> Index(BigFramesExpr("scalars", Columns("L"),
                                    <<Column("L", ORDER_ID_COLUMN)>>,
                                    OrderingSpec(<<>>, ORDER_ID_COLUMN, TRUE, left_size), <<>>),
                                self_column, "rowindex"),
                 other |-> Index(BigFramesExpr("scalars_2",
                                    [i \in 1..2 |-> Column("R", right_columns[i])],
                                    <<Column("R", ORDER_ID_COLUMN)>>,
                                    OrderingSpec(<<>>, ORDER_ID_COLUMN, TRUE, right_size), <<>>),
                                 right_columns[IF other_second THEN 2 ELSE 1], "rowindex"),
                 how |-> how_,
                 left_rows |-> RowsOf(left_rows),
                 right_rows |-> RowsOf(right_rows)]
    /\ eq_joined = [outcome |-> IndexOutcome("none", "", NoIndex), rows |-> {}]
    /\ JoinIdle /\ OrderIdle /\ DtypeIdle /\ BinopIdle
    /\ AggIdle /\ CastIdle /\ SeqIdle /\ IndexIdle /\ GbqIdle /\ FlagIdle

\* The except branch of Index.join returns (index.py:116-229); rows holds,
\* for every row of the joined table, its columns of the two sides and the
\* values of the merged order id and of the joined index.
EqualityJoin ==
    /\ pc = "eq_start"
    /\ index_join_fallback_raises(eq_join.self, eq_join.other, eq_join.how) = ""
    /\ \E guid \in Guids :
        eq_joined' =
            [outcome |-> IndexOutcome("ok", "",
                            index_join_fallback(eq_join.self, eq_join.other, eq_join.how,
                                                FALSE, guid)),
             rows |->
                LET left_size ==
                        ordering_encoding_size(eq_join.self.expr.ordering.ordering_encoding_size)
                    right_size ==
                        ordering_encoding_size(eq_join.other.expr.ordering.ordering_encoding_size)
                IN { [left_index |-> r.left_index, left_order_id |-> r.left_order_id,
                      right_index |-> r.right_index, right_order_id |-> r.right_order_id,
                      new_order_id |-> new_order_id_value(r.left_order_id, left_size,
                                                          r.right_order_id, right_size,
                                                          eq_join.how),
                      joined_index |-> coalesce(r.left_index, r.right_index)] :
                     r \in join_rows(eq_join.left_rows, eq_join.right_rows, eq_join.how) }]
    /\ pc' = "eq_returned"
    /\ UNCHANGED <<eq_join, joinVars, orderVars, dtypeVars, binopVars, aggVars, castVars,
                   seqVars, indexVars, gbqVars, flagVars>>

\* The except branch raises: a resolver asks for a column the joined table
\* does not have.
EqualityJoinRaises ==
    /\ pc = "eq_start"
    /\ index_join_fallback_raises(eq_join.self, eq_join.other, eq_join.how) # ""
    /\ eq_joined' =
            [outcome |-> IndexOutcome("raised",
                            index_join_fallback_raises(eq_join.self, eq_join.other,
                                                       eq_join.how),
                            NoIndex),
             rows |-> {}]
    /\ pc' = "eq_raised"
    /\ UNCHANGED <<eq_join, joinVars, orderVars, dtypeVars, binopVars, aggVars, castVars,
                   seqVars, indexVars, gbqVars, flagVars>>

NextEq == EqualityJoin \/ EqualityJoinRaises

SpecEq == InitEq /\ [][NextEq]_vars

\* Index.join returned from its except branch.
EqReturned == pc = "eq_returned"

\* C21 as stated: after the join on the index columns the merged order id
\* is non-null on every row of the result and no two rows have the same,
\* for every how, the order ids of each side being unique on that side.
C21_AsStated ==
    EqReturned =>
        /\ \A r \in eq_joined.rows : ~r.new_order_id.null
        /\ \A r1, r2 \in eq_joined.rows : r1.new_order_id = r2.new_order_id => r1 = r2

\* The encoding size Index.join uses for a side: that of its ordering, or
\* the default length when it is not set.
EqSize(index) ==
    IF index.expr.ordering.ordering_encoding_size = 0 THEN DEFAULT_ORDERING_ID_LENGTH
    ELSE index.expr.ordering.ordering_encoding_size

\* The rows of the result that come from a row of each side.
EqMatched == {r \in eq_joined.rows : ~IsNull(r.left_order_id) /\ ~IsNull(r.right_order_id)}

\* C24: after the join on the index columns the encoding size of the
\* result's ordering is the sum of the encoding sizes of the two sides
\* (the default length for a side that has none), the ordering's id column
\* is the merged order id, and every merged order id is a string of exactly
\* that length.
C24_EncodingSizeIsSum ==
    EqReturned =>
        LET result == eq_joined.outcome.index.expr
            size == EqSize(eq_join.self) + EqSize(eq_join.other) IN
        /\ result.ordering.ordering_encoding_size = size
        /\ result.ordering.ordering_id = result.meta_columns[1].name
        /\ is_total(result.ordering)
        /\ \A r \in eq_joined.rows :
              ~r.new_order_id.null => Len(r.new_order_id.string) = size

C24_Witness ==
    /\ EqReturned
    /\ eq_join.self.expr.ordering.ordering_encoding_size = 0
    /\ eq_join.other.expr.ordering.ordering_encoding_size = 2
    /\ eq_joined.outcome.index.expr.ordering.ordering_encoding_size = 12
    /\ \E r \in eq_joined.rows : ~r.new_order_id.null /\ Len(r.new_order_id.string) = 12

EqInputColumns ==
    Range(ColumnNames(eq_join.self.expr.columns))
        \cup Range(ColumnNames(eq_join.other.expr.columns))

\* The index of the result is the first column of its expression, named
\* <left index column id>_z, and on every row it has the left index value
\* when that is not NULL and the right index value otherwise.
EqCoalescedIndex ==
    LET index == eq_joined.outcome.index
        index_name == eq_join.self.index_column \o "_z" IN
    /\ index.index_column = index_name
    /\ index.expr.columns[1].name = index_name
    /\ index.expr.columns[1].side = "coalesce"
    /\ \A r \in eq_joined.rows :
          r.joined_index = IF ~IsNull(r.left_index) THEN r.left_index ELSE r.right_index

\* No other column of the result has the name of its index.
EqIndexNameUnique ==
    LET columns == eq_joined.outcome.index.expr.columns IN
    \A i \in 2..Len(columns) : columns[i].name # columns[1].name

\* C28 as stated: the index of the result of Index.join is
\* COALESCE(left index, right index), under the name <left index column
\* id>_z, which no other column of the result has.
C28_AsStated == EqReturned => (EqCoalescedIndex /\ EqIndexNameUnique)

\* C28 amended: the index of the result is COALESCE(left index, right
\* index) under the name <left index column id>_z; no other column of the
\* result has that name unless a column of one of the two tables already
\* has it.
C28_CoalescedIndex ==
    EqReturned =>
        /\ EqCoalescedIndex
        /\ (eq_join.self.index_column \o "_z") \notin EqInputColumns => EqIndexNameUnique

C28_Witness ==
    /\ EqReturned
    /\ eq_join.how = "outer"
    /\ eq_joined.outcome.index.index_column = "a_z"
    /\ EqIndexNameUnique
    /\ \E r \in eq_joined.rows : IsNull(r.left_index) /\ r.joined_index = IntValue(2)
    /\ \E r \in eq_joined.rows : r.left_index = IntValue(1) /\ r.joined_index = IntValue(1)

(***************************************************************************)
(* session.py: Session.read_gbq_table.  The call checks max_results, looks *)
(* the table up, checks col_order and index_col against its columns and    *)
(* then queries the backend: for the uniqueness of the index columns, or   *)
(* to write the table with its sequential ordering.                        *)
(***************************************************************************)

\* What the call did: the exception raised ("" when it returned), how many
\* tables were looked up, how many queries were started and the limit put
\* on the table.
GbqOutcome(exception, message, tables_looked_up, queries_started, limit) ==
    [exception |-> exception, message |-> message, tables_looked_up |-> tables_looked_up,
     queries_started |-> queries_started, limit |-> limit]

\* columns are the columns of the table named by query.
read_gbq_table(query, columns, index_col, col_order, max_results) ==
    IF ~IsNull(max_results) /\ max_results.v # 0 /\ max_results.v <= 0
    THEN GbqOutcome("ValueError", "max_results should be a positive number.", 0, 0, NULL)
    ELSE IF \E i \in 1..Len(col_order) : col_order[i] \notin columns
    THEN GbqOutcome("ValueError", "Column of col_order not found in this table.", 1, 0, NULL)
    ELSE IF \E i \in 1..Len(index_col) : index_col[i] \notin columns
    THEN GbqOutcome("ValueError", "Column of index_col not found in this table.", 1, 0, NULL)
    ELSE GbqOutcome("", "", 1, 1, max_results)

InitGbq ==
    /\ pc = "gbq_start"
    /\ gbq_call \in
        [query : {"_SESSION.t", "dataset.t"},
         index_col : {<<>>, <<"a">>, <<"z">>},
         col_order : {<<>>, <<"b">>, <<"z">>},
         max_results : {NULL} \cup {IntValue(n) : n \in (-MaxAbsInt)..MaxAbsInt}]
    /\ gbq_result = GbqOutcome("", "", 0, 0, NULL)
    /\ JoinIdle /\ OrderIdle /\ DtypeIdle /\ BinopIdle
    /\ AggIdle /\ CastIdle /\ SeqIdle /\ IndexIdle /\ EqIdle /\ FlagIdle

\* The whole call (session.py:419-539).
ReadGbqTable ==
    /\ pc = "gbq_start"
    /\ gbq_result' = read_gbq_table(gbq_call.query, {"a", "b"}, gbq_call.index_col,
                                    gbq_call.col_order, gbq_call.max_results)
    /\ pc' = "gbq_done"
    /\ UNCHANGED <<gbq_call, joinVars, orderVars, dtypeVars, binopVars, aggVars, castVars,
                   seqVars, indexVars, eqVars, flagVars>>

NextGbq == ReadGbqTable

SpecGbq == InitGbq /\ [][NextGbq]_vars

\* C29 as stated: for every max_results <= 0 read_gbq_table raises the
\* ValueError about max_results, and no table has been looked up and no
\* query started.
C29_AsStated ==
    (pc = "gbq_done" /\ ~IsNull(gbq_call.max_results) /\ gbq_call.max_results.v <= 0) =>
        /\ gbq_result.exception = "ValueError"
        /\ gbq_result.message = "max_results should be a positive number."
        /\ gbq_result.tables_looked_up = 0
        /\ gbq_result.queries_started = 0

(***************************************************************************)
(* operations/strings.py: _parse_flags turns the flags of Python's re      *)
(* into the flag prefix of an re2 pattern.                                 *)
(***************************************************************************)

\* Python's & and ^ on non-negative integers.
RECURSIVE BitAnd(_, _)
BitAnd(x, y) ==
    IF x = 0 \/ y = 0 THEN 0
    ELSE 2 * BitAnd(x \div 2, y \div 2) + (IF x % 2 = 1 /\ y % 2 = 1 THEN 1 ELSE 0)

RECURSIVE BitXor(_, _)
BitXor(x, y) ==
    IF x = 0 THEN y
    ELSE IF y = 0 THEN x
    ELSE 2 * BitXor(x \div 2, y \div 2) + (IF x % 2 # y % 2 THEN 1 ELSE 0)

\* Maps from python to re2, in the order of the dict: re.IGNORECASE,
\* re.MULTILINE, re.DOTALL.
REGEXP_FLAGS ==
    << [reflag |-> 2, re2flag |-> "i"],
       [reflag |-> 8, re2flag |-> "m"],
       [reflag |-> 16, re2flag |-> "s"] >>

\* What _parse_flags returns (None or a string) or raises.
_parse_flags(flags_) ==
    LET RECURSIVE loop(_, _, _)
        \* <<flags, "".join(re2flags)>> after the items from the i-th on
        loop(i, remaining, re2flags) ==
            IF i > Len(REGEXP_FLAGS) THEN <<remaining, re2flags>>
            ELSE IF BitAnd(remaining, remaining) # 0
            THEN loop(i + 1, BitXor(remaining, REGEXP_FLAGS[i].reflag),
                      re2flags \o REGEXP_FLAGS[i].re2flag)
            ELSE loop(i + 1, remaining, re2flags)
        after == loop(1, flags_, "")
    IN  IF after[1] # 0
        THEN [exception |-> "NotImplementedError", is_none |-> FALSE, value |-> ""]
        ELSE IF after[2] # ""
        THEN [exception |-> "", is_none |-> FALSE, value |-> "(?" \o after[2] \o ")"]
        ELSE [exception |-> "", is_none |-> TRUE, value |-> ""]

\* Every combination of the eight flags of re below re.ASCII.
InitFlags ==
    /\ pc = "flags_start"
    /\ flags \in 0..255
    /\ flags_result = [exception |-> "", is_none |-> FALSE, value |-> ""]
    /\ JoinIdle /\ OrderIdle /\ DtypeIdle /\ BinopIdle
    /\ AggIdle /\ CastIdle /\ SeqIdle /\ IndexIdle /\ EqIdle /\ GbqIdle

\* contains / replace call _parse_flags(flags) (strings.py:89, 110).
ParseFlags ==
    /\ pc = "flags_start"
    /\ flags_result' = _parse_flags(flags)
    /\ pc' = "flags_done"
    /\ UNCHANGED <<flags, joinVars, orderVars, dtypeVars, binopVars, aggVars, castVars,
                   seqVars, indexVars, eqVars, gbqVars>>

NextFlags == ParseFlags

SpecFlags == InitFlags /\ [][NextFlags]_vars

\* C30 as stated: _parse_flags returns None when no flag is set; for a
\* combination of re.IGNORECASE, re.MULTILINE and re.DOTALL it returns "(?",
\* the re2 letters i, m, s of the flags that are set, and ")"; it raises
\* NotImplementedError exactly when a flag other than these three is set.
C30_AsStated ==
    pc = "flags_done" =>
        LET letter(reflag, re2flag) == IF BitAnd(flags, reflag) # 0 THEN re2flag ELSE ""
            other_flags == BitAnd(flags, 255 - (2 + 8 + 16)) IN
        /\ flags = 0 => (flags_result.exception = "" /\ flags_result.is_none)
        /\ (flags # 0 /\ other_flags = 0) =>
              /\ flags_result.exception = ""
              /\ ~flags_result.is_none
              /\ flags_result.value = "(?" \o letter(2, "i") \o letter(8, "m")
                                           \o letter(16, "s") \o ")"
        /\ flags_result.exception = "NotImplementedError" <=> other_flags # 0

====
